---- MODULE Spec2Model ----
(***************************************************************************)
(* Matrix Mario: the platformer simulation (claudecode/src/game_logic),    *)
(* the threaded serial transmitter (claudecode/src/serial_comm) and the    *)
(* game loop that joins them (claudecode/src/main_app.py).                 *)
(*                                                                         *)
(* Numbers.  Velocities are fixed point, in thousandths of a pixel per     *)
(* tick (GRAVITY = 0.3 is 300); int(v) truncates toward zero, as Python's  *)
(* int() does.  Times are in sixtieths of a second (2.0 s is 120), so the  *)
(* frame intervals of 60, 30 and 1 frames per second are 1, 2 and 60.      *)
(* Timers are exact here; the floats of the program round (six steps of    *)
(* 1/30 s sum to just under 0.2 s), which can move the change of           *)
(* animation_frame by one tick and nothing else.                           *)
(***************************************************************************)
EXTENDS Integers, Sequences, FiniteSets, TLC

VARIABLES
    world,        \* GameWorld: mario, sprite lists, camera, flags, score
    controller,   \* PS5ControllerHandler: connected, button_states, prev_button_states
    tx,           \* SerialTransmitter fields
    frame_queue,  \* SerialTransmitter.frame_queue: Queue(maxsize=10) of packets
    workers,      \* the transmission worker threads: pc and the packet in hand
    sink,         \* the serial device: threads inside write(), queued packets written
    hooks,        \* how often on_connected / on_disconnected / on_error were called
    app,          \* MatrixMarioApp fields and its game-loop thread
    main,         \* the main (console) thread of MatrixMarioApp
    hist,         \* history: send_frame calls, accepted / dropped / popped packets
    renderer,     \* MatrixRenderer: frame_buffer, debug_mode
    codec         \* a pixel buffer, its bytes from matrix_to_serial_data, and the
                  \* buffer serial_data_to_matrix makes of them

vars == <<world, controller, tx, frame_queue, workers, sink, hooks, app, main, hist,
         codec, renderer>>

-----------------------------------------------------------------------------
(* config/settings.py *)

MATRIX_WIDTH == 36
MATRIX_HEIGHT == 28
GAME_FPS == 30
MARIO_SPEED == 2000
JUMP_POWER == 6000
GRAVITY == 300
MARIO_WIDTH == 2
MARIO_HEIGHT == 3
BRICK_SIZE == 2
COIN_SIZE == 1
GROUND_HEIGHT == 5

(* Literals of mario.py and world.py, in the model's units. *)
TERMINAL_VELOCITY == 10000
MARIO_ACCELERATION == 500
DEATH_VY == -5000
BOUNCE_VY == -3000
ENEMY_GRAVITY == 300
ENEMY_SPEED == 1000
JUMP_LOCKOUT == 30
INVINCIBLE_DURATION == 120
MARIO_ANIMATION_PERIOD == 12
COIN_ANIMATION_PERIOD == 30
COIN_POINTS == 100
ENEMY_POINTS == 200
BRICK_POINTS == 50
MARIO_LIVES == 3
STOMP_TOLERANCE == 2

-----------------------------------------------------------------------------
(* Arithmetic helpers *)

Min(a, b) == IF a <= b THEN a ELSE b
Max(a, b) == IF a >= b THEN a ELSE b
Abs(a) == IF a >= 0 THEN a ELSE -a

\* Python's int(): truncation toward zero of v / 1000.
IntOf(v) == IF v >= 0 THEN v \div 1000 ELSE -((-v) \div 1000)

\* vx *= 0.8, kept to a thousandth.
Friction(v) == IF v >= 0 THEN (v * 8) \div 10 ELSE -(((-v) * 8) \div 10)

-----------------------------------------------------------------------------
(* game_logic/sprite.py *)

\* Sprite.is_collision
is_collision(a, b) ==
    /\ a.x < b.x + b.width
    /\ a.x + a.width > b.x
    /\ a.y < b.y + b.height
    /\ a.y + a.height > b.y

\* DynamicSprite.update: apply the velocity, keep within the matrix.
DynamicSprite_update(s) ==
    IF ~s.active THEN s
    ELSE LET nx == s.x + IntOf(s.vx)
             ny == s.y + IntOf(s.vy)
         IN [s EXCEPT !.x = Max(0, Min(nx, MATRIX_WIDTH - s.width)),
                      !.y = Max(0, Min(ny, MATRIX_HEIGHT - s.height))]

-----------------------------------------------------------------------------
(* game_logic/mario.py *)

Mario_init(x0, y0) ==
    [kind |-> "Mario", x |-> x0, y |-> MATRIX_HEIGHT - GROUND_HEIGHT - MARIO_HEIGHT,
     width |-> MARIO_WIDTH, height |-> MARIO_HEIGHT, color |-> "MARIO_HAT",
     active |-> TRUE, visible |-> TRUE,
     vx |-> 0, vy |-> 0, on_ground |-> TRUE, gravity_enabled |-> TRUE,
     state |-> "small", direction |-> 1, jump_timer |-> 0,
     invincible |-> FALSE, invincible_timer |-> 0,
     lives |-> MARIO_LIVES, score |-> 0,
     animation_frame |-> 0, animation_timer |-> 0]

Mario_invincibility(m, dt) ==
    IF m.invincible
    THEN [m EXCEPT !.invincible_timer = m.invincible_timer - dt,
                   !.invincible = ~(m.invincible_timer - dt <= 0)]
    ELSE m

Mario_gravity(m) ==
    IF ~m.on_ground /\ m.gravity_enabled
    THEN [m EXCEPT !.vy = Min(m.vy + GRAVITY, TERMINAL_VELOCITY)]
    ELSE m

Mario_friction(m) ==
    [m EXCEPT !.vx = IF Abs(Friction(m.vx)) < 100 THEN 0 ELSE Friction(m.vx)]

Mario_timers(m, dt) ==
    LET j == IF m.jump_timer > 0 THEN m.jump_timer - dt ELSE m.jump_timer
        a == m.animation_timer + dt
    IN [m EXCEPT !.jump_timer = j,
                 !.animation_frame = IF a >= MARIO_ANIMATION_PERIOD
                                     THEN (m.animation_frame + 1) % 3
                                     ELSE m.animation_frame,
                 !.animation_timer = IF a >= MARIO_ANIMATION_PERIOD THEN 0 ELSE a]

\* The ground check of Mario.update: at or below the ground line Mario is put
\* on it, his vy is zeroed and on_ground set; anywhere else on_ground is cleared.
Mario_ground(m) ==
    LET ground_y == MATRIX_HEIGHT - GROUND_HEIGHT
    IN IF m.y + m.height >= ground_y
       THEN [m EXCEPT !.y = ground_y - m.height, !.vy = 0, !.on_ground = TRUE]
       ELSE [m EXCEPT !.on_ground = FALSE]

Mario_update(m, dt) ==
    IF ~m.active THEN m
    ELSE DynamicSprite_update(
             Mario_ground(Mario_timers(Mario_friction(Mario_gravity(
                 Mario_invincibility(m, dt))), dt)))

Mario_move_left(m) ==
    [m EXCEPT !.direction = -1,
              !.vx = Max(m.vx - MARIO_ACCELERATION, -MARIO_SPEED)]

Mario_move_right(m) ==
    [m EXCEPT !.direction = 1,
              !.vx = Min(m.vx + MARIO_ACCELERATION, MARIO_SPEED)]

Mario_jump(m) ==
    IF m.on_ground /\ m.jump_timer <= 0
    THEN [m EXCEPT !.vy = -JUMP_POWER, !.on_ground = FALSE, !.jump_timer = JUMP_LOCKOUT]
    ELSE m

\* A grow that also works on big Mario, taking him on to fire.
grow_further(m) ==
    IF m.state = "small"
    THEN [m EXCEPT !.state = "big",
                   !.height = MARIO_HEIGHT + 1,
                   !.y = m.y - ((MARIO_HEIGHT + 1) - m.height),
                   !.color = "MARIO_SHIRT"]
    ELSE IF m.state = "big"
         THEN [m EXCEPT !.state = "fire"]
    ELSE m

Mario_grow(m) ==
    IF m.state = "small"
    THEN [m EXCEPT !.state = "big",
                   !.height = MARIO_HEIGHT + 1,
                   !.y = m.y - ((MARIO_HEIGHT + 1) - m.height),
                   !.color = "MARIO_SHIRT"]
    ELSE m

Mario_get_fire_power(m) ==
    IF m.state # "fire"
    THEN [(IF m.state = "small" THEN Mario_grow(m) ELSE m)
             EXCEPT !.state = "fire", !.color = "WHITE"]
    ELSE m

Mario_make_invincible(m) ==
    [m EXCEPT !.invincible = TRUE, !.invincible_timer = INVINCIBLE_DURATION]

\* A die() whose test is lives < 0: the life count reaches 0 with Mario still
\* active.
die_late(m) ==
    [m EXCEPT !.lives = m.lives - 1,
              !.vx = 0,
              !.vy = DEATH_VY,
              !.gravity_enabled = FALSE,
              !.active = IF m.lives - 1 < 0 THEN FALSE ELSE m.active]

Mario_die(m) ==
    [m EXCEPT !.lives = m.lives - 1,
              !.vx = 0,
              !.vy = DEATH_VY,
              !.gravity_enabled = FALSE,
              !.active = IF m.lives - 1 <= 0 THEN FALSE ELSE m.active]

\* A take_damage without the invincibility test: damage lands inside the window.
take_damage_unguarded(m) ==
    IF m.state = "fire"
    THEN Mario_make_invincible([m EXCEPT !.state = "big", !.color = "MARIO_SHIRT"])
    ELSE IF m.state = "big"
         THEN Mario_make_invincible(
                  [m EXCEPT !.state = "small", !.height = MARIO_HEIGHT,
                            !.color = "MARIO_HAT"])
    ELSE Mario_die(m)

\* take_damage: the Mario it leaves.
Mario_take_damage(m) ==
    IF m.invincible THEN m
    ELSE IF m.state = "fire"
         THEN Mario_make_invincible([m EXCEPT !.state = "big", !.color = "MARIO_SHIRT"])
    ELSE IF m.state = "big"
         THEN Mario_make_invincible(
                  [m EXCEPT !.state = "small", !.height = MARIO_HEIGHT,
                            !.color = "MARIO_HAT"])
    ELSE Mario_die(m)

\* take_damage: its return value (True if Mario dies).
Mario_take_damage_returns(m) == ~m.invincible /\ m.state = "small"

\* A respawn that does not look at lives.
respawn_regardless(m, x0, y0) ==
    [m EXCEPT !.x = x0, !.y = y0, !.vx = 0, !.vy = 0,
              !.state = "small", !.height = MARIO_HEIGHT, !.color = "MARIO_HAT",
              !.on_ground = FALSE, !.gravity_enabled = TRUE,
              !.invincible = FALSE, !.invincible_timer = 0]

Mario_respawn(m, x0, y0) ==
    IF m.lives > 0
    THEN [m EXCEPT !.x = x0, !.y = y0, !.vx = 0, !.vy = 0,
                   !.state = "small", !.height = MARIO_HEIGHT, !.color = "MARIO_HAT",
                   !.on_ground = FALSE, !.gravity_enabled = TRUE,
                   !.invincible = FALSE, !.invincible_timer = 0]
    ELSE m

Mario_add_score(m, points) == [m EXCEPT !.score = m.score + points]

-----------------------------------------------------------------------------
(* game_logic/world.py: the sprites *)

Platform_init(x0, y0, w) ==
    [kind |-> "Platform", x |-> x0, y |-> y0, width |-> w, height |-> 1,
     color |-> "GREEN", active |-> TRUE, visible |-> TRUE, solid |-> TRUE,
     destructible |-> FALSE, hit_count |-> 0]

Brick_init(x0, y0) ==
    [kind |-> "Brick", x |-> x0, y |-> y0, width |-> BRICK_SIZE, height |-> BRICK_SIZE,
     color |-> "BRICK", active |-> TRUE, visible |-> TRUE, solid |-> TRUE,
     destructible |-> TRUE, hit_count |-> 0]

\* Brick.hit: one more hit; a single hit destroys the brick.
Brick_hit(b) ==
    [b EXCEPT !.hit_count = b.hit_count + 1,
              !.active = IF b.hit_count + 1 >= 1 THEN FALSE ELSE b.active]

Brick_hit_returns(b) == b.hit_count + 1 >= 1

Coin_init(x0, y0) ==
    [kind |-> "Coin", x |-> x0, y |-> y0, width |-> COIN_SIZE, height |-> COIN_SIZE,
     color |-> "COIN", active |-> TRUE, visible |-> TRUE,
     vx |-> 0, vy |-> 0, on_ground |-> FALSE, gravity_enabled |-> TRUE,
     speed |-> 0, direction |-> 0, points |-> COIN_POINTS, animation_timer |-> 0]

Coin_update(c, dt) ==
    IF c.animation_timer + dt >= COIN_ANIMATION_PERIOD
    THEN [c EXCEPT !.color = IF c.color = "COIN" THEN "YELLOW" ELSE "COIN",
                   !.animation_timer = 0]
    ELSE [c EXCEPT !.animation_timer = c.animation_timer + dt]

Enemy_init(x0, y0) ==
    [kind |-> "Enemy", x |-> x0, y |-> y0, width |-> 2, height |-> 2,
     color |-> "BROWN", active |-> TRUE, visible |-> TRUE,
     vx |-> -ENEMY_SPEED, vy |-> 0, on_ground |-> FALSE, gravity_enabled |-> TRUE,
     speed |-> ENEMY_SPEED, direction |-> -1, points |-> ENEMY_POINTS,
     animation_timer |-> 0]

Enemy_update(e, dt) ==
    LET e1 == DynamicSprite_update(e)
        turn == e1.x <= 0 \/ e1.x >= MATRIX_WIDTH - e1.width
        e2 == IF turn
              THEN [e1 EXCEPT !.direction = -e1.direction,
                              !.vx = e1.speed * (-e1.direction)]
              ELSE e1
        ground_y == MATRIX_HEIGHT - GROUND_HEIGHT
    IN IF e2.y + e2.height >= ground_y
       THEN [e2 EXCEPT !.y = ground_y - e2.height, !.vy = 0]
       ELSE [e2 EXCEPT !.vy = e2.vy + ENEMY_GRAVITY]

Sprite_update(s, dt) ==
    IF s.kind = "Coin" THEN Coin_update(s, dt) ELSE Enemy_update(s, dt)

-----------------------------------------------------------------------------
(* game_logic/world.py: GameWorld *)

\* GameWorld._create_level_1: a new Mario, and the level's sprites appended to
\* the two lists.
create_level_1(w) ==
    LET ground_y == MATRIX_HEIGHT - GROUND_HEIGHT
    IN [w EXCEPT
          !.mario = Mario_init(3, 0),
          !.static_sprites =
              @ \o << Platform_init(8, ground_y - 3, 4),
                      Platform_init(15, ground_y - 6, 3),
                      Platform_init(25, ground_y - 4, 5),
                      Brick_init(12, ground_y - 3),
                      Brick_init(13, ground_y - 3),
                      Brick_init(20, ground_y - 3),
                      Brick_init(21, ground_y - 3),
                      Brick_init(22, ground_y - 3) >>,
          !.dynamic_sprites =
              @ \o << Coin_init(10, ground_y - 5),
                      Coin_init(16, ground_y - 8),
                      Coin_init(27, ground_y - 6),
                      Enemy_init(18, ground_y - 2),
                      Enemy_init(30, ground_y - 2) >>]

\* GameWorld.__init__
GameWorld_init ==
    create_level_1([mario |-> "None", static_sprites |-> << >>,
                    dynamic_sprites |-> << >>, camera_x |-> 0, level |-> 1,
                    game_over |-> FALSE, level_complete |-> FALSE, score |-> 0])

\* The loop over dynamic_sprites[:] in update: an active sprite is updated, an
\* inactive one removed from the list.
RECURSIVE UpdateDynamic(_, _)
UpdateDynamic(list, dt) ==
    IF list = << >> THEN << >>
    ELSE IF Head(list).active
         THEN << Sprite_update(Head(list), dt) >> \o UpdateDynamic(Tail(list), dt)
         ELSE UpdateDynamic(Tail(list), dt)

\* _handle_mario_static_collision with static_sprites[i]
handle_mario_static_collision(w, i) ==
    LET sprite == w.static_sprites[i]
        m == w.mario
    IN IF sprite.kind = "Brick"
       THEN IF m.y > sprite.y /\ m.vy < 0
            THEN [w EXCEPT !.static_sprites[i] = Brick_hit(sprite),
                           !.score = IF Brick_hit_returns(sprite)
                                     THEN w.score + BRICK_POINTS ELSE w.score,
                           !.mario.vy = 0]
            ELSE w
       ELSE IF m.y < sprite.y /\ m.vy > 0
            THEN [w EXCEPT !.mario.y = sprite.y - m.height,
                           !.mario.vy = 0,
                           !.mario.on_ground = TRUE]
            ELSE w

\* The first loop of _check_collisions, from static_sprites[i] on.
RECURSIVE StaticPass(_, _)
StaticPass(w, i) ==
    IF i > Len(w.static_sprites) THEN w
    ELSE StaticPass(
             IF w.static_sprites[i].active /\ is_collision(w.mario, w.static_sprites[i])
             THEN handle_mario_static_collision(w, i)
             ELSE w,
             i + 1)

\* A handler whose stomp test has no tolerance: Mario's bottom edge must be at or
\* above the enemy's top edge, which an overlap excludes.
dynamic_collision_no_tolerance(w, sprite) ==
    IF sprite.kind = "Coin"
    THEN [w EXCEPT !.mario = Mario_add_score(w.mario, sprite.points),
                   !.score = w.score + sprite.points]
    ELSE IF w.mario.y + w.mario.height <= sprite.y /\ w.mario.vy > 0
         THEN [w EXCEPT !.mario = [Mario_add_score(w.mario, sprite.points)
                                       EXCEPT !.vy = BOUNCE_VY],
                        !.score = w.score + sprite.points]
         ELSE [w EXCEPT !.mario = Mario_take_damage(w.mario),
                        !.game_over = IF Mario_take_damage_returns(w.mario)
                                      THEN TRUE ELSE w.game_over]

\* _handle_mario_dynamic_collision with sprite: the world it leaves, the sprite
\* itself being taken out of dynamic_sprites by DynamicPass.
handle_mario_dynamic_collision(w, sprite) ==
    IF sprite.kind = "Coin"
    THEN [w EXCEPT !.mario = Mario_add_score(w.mario, sprite.points),
                   !.score = w.score + sprite.points]
    ELSE IF w.mario.y + w.mario.height <= sprite.y + STOMP_TOLERANCE /\ w.mario.vy > 0
         THEN [w EXCEPT !.mario = [Mario_add_score(w.mario, sprite.points)
                                       EXCEPT !.vy = BOUNCE_VY],
                        !.score = w.score + sprite.points]
         ELSE [w EXCEPT !.mario = Mario_take_damage(w.mario),
                        !.game_over = IF Mario_take_damage_returns(w.mario)
                                      THEN TRUE ELSE w.game_over]

\* A handler that takes only stomped enemies out: a collected coin stays where
\* it is, active.
collision_keeps_coin(w, sprite) ==
    /\ sprite.kind # "Coin"
    /\ (w.mario.y + w.mario.height <= sprite.y + STOMP_TOLERANCE /\ w.mario.vy > 0)

\* Whether the handler removes the sprite (a collected coin, a stomped enemy).
dynamic_collision_removes(w, sprite) ==
    \/ sprite.kind = "Coin"
    \/ (w.mario.y + w.mario.height <= sprite.y + STOMP_TOLERANCE /\ w.mario.vy > 0)

\* The second loop of _check_collisions over the copy `snapshot`, from its
\* element i on; kept collects the sprites that stay in dynamic_sprites.
RECURSIVE DynamicPass(_, _, _, _)
DynamicPass(w, snapshot, i, kept) ==
    IF i > Len(snapshot) THEN [w EXCEPT !.dynamic_sprites = kept]
    ELSE LET sprite == snapshot[i]
         IN IF sprite.active /\ is_collision(w.mario, sprite)
            THEN DynamicPass(handle_mario_dynamic_collision(w, sprite), snapshot, i + 1,
                             IF dynamic_collision_removes(w, sprite)
                             THEN kept ELSE Append(kept, sprite))
            ELSE DynamicPass(w, snapshot, i + 1, Append(kept, sprite))

check_collisions(w) ==
    IF ~w.mario.active THEN w
    ELSE LET w1 == StaticPass(w, 1)
         IN DynamicPass(w1, w1.dynamic_sprites, 1, << >>)

update_camera(w) ==
    [w EXCEPT !.camera_x = Max(0, w.mario.x - (MATRIX_WIDTH \div 2))]

check_game_state(w) ==
    IF ~w.mario.active THEN [w EXCEPT !.game_over = TRUE]
    ELSE LET w1 == IF w.mario.x >= MATRIX_WIDTH - 3
                   THEN [w EXCEPT !.level_complete = TRUE] ELSE w
         IN IF w1.mario.y > MATRIX_HEIGHT
            THEN [w1 EXCEPT !.mario = Mario_take_damage(w1.mario),
                            !.game_over = IF Mario_take_damage_returns(w1.mario)
                                          THEN TRUE ELSE w1.game_over]
            ELSE w1

\* GameWorld.update
GameWorld_update(w, dt) ==
    IF w.game_over \/ ~w.mario.active THEN w
    ELSE check_game_state(update_camera(check_collisions(
             [w EXCEPT !.mario = Mario_update(w.mario, dt),
                       !.dynamic_sprites = UpdateDynamic(w.dynamic_sprites, dt)])))

\* controller/ps5_controller.py: is_pressed, is_just_pressed
is_pressed(c, action) == c.button_states[action]

is_just_pressed(c, action) ==
    c.button_states[action] /\ ~c.prev_button_states[action]

\* GameWorld.handle_input
GameWorld_handle_input(w, c) ==
    IF ~w.mario.active THEN w
    ELSE LET m1 == IF is_pressed(c, "left") THEN Mario_move_left(w.mario)
                   ELSE IF is_pressed(c, "right") THEN Mario_move_right(w.mario)
                   ELSE w.mario
         IN [w EXCEPT !.mario = IF is_just_pressed(c, "jump")
                                THEN Mario_jump(m1) ELSE m1]

\* A reset that builds the level again without clearing the two lists.
reset_keeping_lists(w) ==
    create_level_1([w EXCEPT !.mario = "None", !.camera_x = 0, !.level = 1,
                             !.game_over = FALSE, !.level_complete = FALSE,
                             !.score = 0])

\* GameWorld.reset: the lists cleared, the fields set back, the level built
\* again.
GameWorld_reset(w) ==
    create_level_1([w EXCEPT !.static_sprites = << >>, !.dynamic_sprites = << >>,
                             !.mario = "None", !.camera_x = 0, !.level = 1,
                             !.game_over = FALSE, !.level_complete = FALSE,
                             !.score = 0])

-----------------------------------------------------------------------------
(* Bounds of the model *)

\* The three bounds below are per world: GameWorld.reset starts them afresh.
\* GameWorld.update calls on one world.
MaxTicks == 2
\* Direct calls of Mario's operations (grow, get_fire_power, take_damage, respawn)
\* on one world's Mario.
MaxCalls == 4
\* How often the pad's reading changes between two polls; otherwise it is held.
MaxPadChanges == 1
\* Game-loop iterations that run a tick: in a run left to itself, and in a run
\* with console commands, write failures and a shutdown.
MaxFrames == 15
MaxBusyFrames == 2
\* Console commands typed during one run.
MaxCommands == 1
\* Writes to the serial device that fail during one run.
MaxFailures == 1
\* The longest time the loop stays paused, in sixtieths of a second.
MaxPausedTime == 4
\* Pause commands typed during a run of nothing but pausing and resuming.
MaxPauses == 2

-----------------------------------------------------------------------------
(* controller/ps5_controller.py *)

Buttons == {"left", "right", "jump", "attack", "start"}

Released == [b \in Buttons |-> FALSE]

Pressed(held) == [b \in Buttons |-> b \in held]

\* What the pad can report in one poll: the stick or D-pad is left, right or
\* centred, and the jump button is down or up.
PadSnapshots ==
    { Pressed({}), Pressed({"left"}), Pressed({"right"}),
      Pressed({"jump"}), Pressed({"right", "jump"}) }

Controller_init(pad) ==
    [connected |-> pad, button_states |-> Released, prev_button_states |-> Released]

\* PS5ControllerHandler.update: without a pad nothing is read; with one the old
\* states are kept for edge detection and the new ones read.
Controller_update(c, snapshot) ==
    IF ~c.connected THEN c
    ELSE [c EXCEPT !.prev_button_states = c.button_states,
                   !.button_states = snapshot]

\* PS5ControllerHandler.disconnect
PS5ControllerHandler_disconnect(c) == [c EXCEPT !.connected = FALSE]

\* frame_time = 1.0 / fps, in sixtieths of a second.
FrameTime(fps) == 60 \div fps

\* A set_fps that takes any number.
set_fps_unchecked(a, fps) == [a EXCEPT !.target_fps = fps, !.frame_time = FrameTime(fps)]

\* MatrixMarioApp.set_fps
App_set_fps(a, fps) ==
    IF 1 <= fps /\ fps <= 60
    THEN [a EXCEPT !.target_fps = fps, !.frame_time = FrameTime(fps)]
    ELSE a

-----------------------------------------------------------------------------
(* serial_comm/serial_transmitter.py: state *)

Workers == {"worker1", "worker2"}

\* utils/helpers.py matrix_to_serial_data: two marker bytes, three bytes for
\* each pixel of the 36 x 28 buffer, two marker bytes.
PacketLen == 2 + MATRIX_WIDTH * MATRIX_HEIGHT * 3 + 2

\* A packet: the send_frame call that encoded it (0: a test pattern sent by
\* send_frame_blocking) and its length in bytes.
Packet(n) == [id |-> n, len |-> PacketLen]

NoPacket == [id |-> 0, len |-> 0]

\* Queue(maxsize=10)
QUEUE_MAXSIZE == 10

\* SerialTransmitter.__init__ / MockSerialTransmitter.__init__
Transmitter_init(mock) ==
    [mock |-> mock, connected |-> FALSE, running |-> FALSE,
     serial_connection |-> "None", transmit_thread |-> "None",
     frames_sent |-> 0, bytes_sent |-> 0, transmission_errors |-> 0,
     mock_connected |-> FALSE, mock_frames |-> 0]

Workers_init == [w \in Workers |-> [pc |-> "unstarted", frame_data |-> NoPacket]]

\* The serial device: the threads inside write(), and the queued packets that
\* were written whole.
Sink_init == [writers |-> {}, wire |-> {}]

Hooks_init == [on_connected |-> 0, on_disconnected |-> 0, on_error |-> 0]

\* MatrixMarioApp.__init__, with the game-loop thread not yet started.  elapsed
\* is the time since frame_start_time; pc, k and then are the game-loop
\* thread's position.
App_init ==
    [running |-> FALSE, paused |-> FALSE, target_fps |-> GAME_FPS,
     frame_time |-> FrameTime(GAME_FPS), frame_count |-> 0,
     pc |-> "unstarted", k |-> 0, then |-> "none", elapsed |-> 0]

\* The main thread: initialize() is still to be called `inits` times (once by
\* start(); the GUI's GameThread.run calls it and then start()).
Main_init(inits) ==
    [pc |-> "initialize", k |-> 0, then |-> "none", inits |-> inits, commands |-> 0]

\* The runs explored: "quiet" runs long enough for the queue to fill and the game
\* to end, with nobody at the console and a link that does not fail; "busy"
\* runs are short and have commands, failing writes and a shutdown; "twice"
\* runs are short, call initialize() twice and have failing writes and a
\* shutdown; "paused" runs are short and have nothing but the pause command.
Runs == {"quiet", "busy", "twice", "paused"}

Hist_init(run) ==
    [run |-> run, ticks |-> 0, calls |-> 0, pad_changes |-> 0,
     frames |-> 0, sends |-> 0, accepted |-> << >>, dropped |-> 0, popped |-> << >>,
     failures |-> 0, connect_failures |-> 0, ignored |-> 0, renders |-> 0,
     patterns |-> 0, invalid |-> 0]

-----------------------------------------------------------------------------
(* utils/helpers.py: the pixel buffer and its bytes on the wire *)

START_MARKER == << 255, 254 >>

END_MARKER == << 253, 252 >>

BLACK == << 0, 0, 0 >>

\* data.extend(pixel) for every pixel of a row, in order.
RECURSIVE extend_row(_)
extend_row(row) ==
    IF Len(row) = 0 THEN << >> ELSE Head(row) \o extend_row(Tail(row))

\* The two loops of matrix_to_serial_data: row after row.
RECURSIVE extend_rows(_)
extend_rows(matrix) ==
    IF Len(matrix) = 0 THEN << >>
    ELSE extend_row(Head(matrix)) \o extend_rows(Tail(matrix))

\* An encoder that walks the buffer column after column.
serial_data_column_major(matrix) ==
    LET column(x) == [y \in 1..Len(matrix) |-> matrix[y][x]]
        width == IF Len(matrix) = 0 THEN 0 ELSE Len(matrix[1])
    IN START_MARKER \o extend_rows([x \in 1..width |-> column(x)]) \o END_MARKER

matrix_to_serial_data(matrix) == START_MARKER \o extend_rows(matrix) \o END_MARKER

\* The loops of serial_data_to_matrix, pixel after pixel: three bytes are read
\* at idx while idx + 2 is inside rgb_data, and a black pixel is put otherwise.
RECURSIVE read_pixels(_, _, _)
read_pixels(rgb_data, idx, count) ==
    IF count = 0 THEN << >>
    ELSE IF idx + 2 < Len(rgb_data)
         THEN << << rgb_data[idx + 1], rgb_data[idx + 2], rgb_data[idx + 3] >> >>
                  \o read_pixels(rgb_data, idx + 3, count - 1)
         ELSE << BLACK >> \o read_pixels(rgb_data, idx, count - 1)

\* A decoder whose test is idx + 3 < len(rgb_data): the last pixel is not read.
decode_one_short(data, width, height) ==
    LET rgb_data == IF Len(data) > 4 THEN SubSeq(data, 3, Len(data) - 2) ELSE data
        pixel(k) == IF 3 * k < Len(rgb_data)
                    THEN << rgb_data[3 * k - 2], rgb_data[3 * k - 1], rgb_data[3 * k] >>
                    ELSE BLACK
    IN [y \in 1..height |-> [x \in 1..width |-> pixel((y - 1) * width + x)]]

serial_data_to_matrix(data, width, height) ==
    LET rgb_data == IF Len(data) > 4 THEN SubSeq(data, 3, Len(data) - 2) ELSE data
        pixels == read_pixels(rgb_data, 0, width * height)
    IN [y \in 1..height |-> [x \in 1..width |-> pixels[(y - 1) * width + x]]]

\* No buffer in hand.
Codec_init ==
    [pc |-> "none", width |-> 0, height |-> 0, matrix |-> << >>,
     data |-> << >>, again |-> << >>, decoded |-> << >>]

-----------------------------------------------------------------------------
(* config/settings.py COLORS, utils/helpers.py drawing, renderer/matrix_renderer.py *)

COLORS ==
    [BLACK |-> << 0, 0, 0 >>, WHITE |-> << 255, 255, 255 >>, RED |-> << 255, 0, 0 >>,
     GREEN |-> << 0, 255, 0 >>, BLUE |-> << 0, 0, 255 >>, YELLOW |-> << 255, 255, 0 >>,
     BROWN |-> << 139, 69, 19 >>, MARIO_HAT |-> << 255, 0, 0 >>,
     MARIO_SHIRT |-> << 0, 0, 255 >>, BRICK |-> << 205, 133, 63 >>,
     COIN |-> << 255, 215, 0 >>]

\* Rows 0..height-1 of pixels 0..width-1, all black.
create_empty_matrix(width, height) ==
    [y \in 0..(height - 1) |-> [x \in 0..(width - 1) |-> COLORS.BLACK]]

\* A test that lets every cell through.
in_bounds_anywhere(x, y, width, height) == TRUE

\* The test of draw_pixel.
in_bounds(x, y, width, height) == 0 <= x /\ x < width /\ 0 <= y /\ y < height

\* draw_pixel for each cell <<x, y>> of a loop, all in one colour: the cells
\* that pass the test are stored into, matrix[y][x] = color.copy().
draw_pixels(matrix, cells, color, width, height) ==
    LET written == { cells[k] : k \in { j \in DOMAIN cells :
                                          in_bounds(cells[j][1], cells[j][2], width, height) } }
        rows == DOMAIN matrix \cup { c[2] : c \in written }
        columns(y) == (IF y \in DOMAIN matrix THEN DOMAIN matrix[y] ELSE {})
                         \cup { c[1] : c \in { d \in written : d[2] = y } }
    IN [y \in rows |->
           IF \A c \in written : c[2] # y THEN matrix[y]
           ELSE [x \in columns(y) |->
                   IF << x, y >> \in written THEN color ELSE matrix[y][x]]]

draw_pixel(matrix, x, y, color, width, height) ==
    draw_pixels(matrix, << << x, y >> >>, color, width, height)

\* for dy in range(h): for dx in range(w)
draw_rect(matrix, x, y, w, h, color, width, height) ==
    draw_pixels(matrix,
                [k \in 1..(Max(0, w) * Max(0, h)) |->
                    << x + ((k - 1) % w), y + ((k - 1) \div w) >>],
                color, width, height)

\* Mario.get_animation_color; int(invincible_timer * 10) is a count of tenths
\* of a second, the timer being kept in sixtieths.
get_animation_color(m) ==
    LET t == m.invincible_timer
        tenths == IF t >= 0 THEN t \div 6 ELSE -((-t) \div 6)
    IN IF m.invincible /\ tenths % 2 # 0 THEN COLORS.WHITE
       ELSE IF m.vx # 0 /\ m.animation_frame # 1
            THEN [c \in 1..3 |-> Max(0, COLORS[m.color][c] - 30)]
            ELSE COLORS[m.color]

\* GameWorld._is_sprite_visible
is_sprite_visible(w, sprite) ==
    sprite.x + sprite.width > w.camera_x /\ sprite.x < w.camera_x + MATRIX_WIDTH

\* GameWorld.get_visible_sprites: a new list, Mario first.
get_visible_sprites(w) ==
    LET shown(sprite) == sprite.active /\ is_sprite_visible(w, sprite)
    IN (IF w.mario.active THEN << w.mario >> ELSE << >>)
          \o SelectSeq(w.static_sprites, shown)
          \o SelectSeq(w.dynamic_sprites, shown)

\* MatrixRenderer._get_sprite_layer
get_sprite_layer(sprite) ==
    CASE sprite.kind = "Platform" -> 1
      [] sprite.kind = "Brick" -> 2
      [] sprite.kind = "Coin" -> 3
      [] sprite.kind = "Enemy" -> 4
      [] sprite.kind = "Mario" -> 5
      [] OTHER -> 0

\* sprites.sort(key=_get_sprite_layer): a stable sort, so each layer keeps the
\* order the list had.
sort_by_layer(sprites) ==
    LET layer(n) == SelectSeq(sprites, LAMBDA s : get_sprite_layer(s) = n)
    IN layer(0) \o layer(1) \o layer(2) \o layer(3) \o layer(4) \o layer(5)

\* MatrixRenderer._get_sprite_color
get_sprite_color(sprite) ==
    IF sprite.kind = "Mario" THEN get_animation_color(sprite) ELSE COLORS[sprite.color]

\* MatrixRenderer._render_sprite with debug_mode off, as the renderer is built
\* and as the application leaves it.
render_sprite(r, matrix, sprite, camera_x) ==
    LET screen_x == sprite.x - camera_x
        screen_y == sprite.y
    IN IF ~sprite.visible \/ ~sprite.active THEN matrix
       ELSE IF \/ screen_x + sprite.width < 0 \/ screen_x >= r.width
               \/ screen_y + sprite.height < 0 \/ screen_y >= r.height
       THEN matrix
       ELSE draw_rect(matrix, screen_x, screen_y, sprite.width, sprite.height,
                      get_sprite_color(sprite), r.width, r.height)

\* for sprite in sprites: self._render_sprite(sprite, world.camera_x)
RECURSIVE render_sprites(_, _, _, _)
render_sprites(r, matrix, sprites, camera_x) ==
    IF Len(sprites) = 0 THEN matrix
    ELSE render_sprites(r, render_sprite(r, matrix, Head(sprites), camera_x),
                        Tail(sprites), camera_x)

\* MatrixRenderer._clear_frame: every cell of the height x width loop is
\* assigned the background colour.
clear_frame(r) ==
    [y \in DOMAIN r.frame_buffer |->
        [x \in DOMAIN r.frame_buffer[y] |->
            IF y < r.height /\ x < r.width THEN r.background_color
            ELSE r.frame_buffer[y][x]]]

\* MatrixRenderer._draw_background: the ground line.
draw_background(r, matrix) ==
    draw_pixels(matrix, [k \in 1..r.width |-> << k - 1, r.height - GROUND_HEIGHT >>],
                r.ground_color, r.width, r.height)

\* MatrixRenderer._draw_ui: a red pixel for each of up to five lives in row 0,
\* a yellow bar of score // 100 pixels in row 1.
draw_ui(r, matrix, w) ==
    LET lives == draw_pixels(matrix,
                             [i \in 1..Max(0, Min(w.mario.lives, 5)) |-> << (i - 1) * 2, 0 >>],
                             COLORS.RED, r.width, r.height)
        score_level == Min(w.score \div 100, r.width - 1)
    IN IF w.score > 0
       THEN draw_pixels(lives, [i \in 1..score_level |-> << i - 1, 1 >>],
                        COLORS.YELLOW, r.width, r.height)
       ELSE lives

\* A renderer that sorts the world's own list of dynamic sprites.
render_frame_sorting_world(r, w) ==
    [frame_buffer |->
         draw_ui(r,
                 render_sprites(r, draw_background(r, clear_frame(r)),
                                sort_by_layer(get_visible_sprites(w)), w.camera_x),
                 w),
     world |-> [w EXCEPT !.dynamic_sprites =
                            SelectSeq(w.dynamic_sprites, LAMBDA s : s.kind = "Enemy")
                               \o SelectSeq(w.dynamic_sprites, LAMBDA s : s.kind # "Enemy")]]

\* MatrixRenderer.render_frame: the frame buffer it returns and the world as it
\* leaves it.  The list it sorts is the new one get_visible_sprites built, and
\* draw_pixel stores a copy of each colour.
render_frame(r, w) ==
    [frame_buffer |->
         draw_ui(r,
                 render_sprites(r, draw_background(r, clear_frame(r)),
                                sort_by_layer(get_visible_sprites(w)), w.camera_x),
                 w),
     world |-> w]

\* MatrixRenderer.render_test_pattern: the border, the centre cross, the four
\* corner markers.
render_test_pattern(r) ==
    LET W == r.width
        H == r.height
        top == draw_pixels(clear_frame(r),
                           [k \in 1..(2 * W) |->
                               << (k - 1) \div 2, IF k % 2 = 1 THEN 0 ELSE H - 1 >>],
                           COLORS.WHITE, W, H)
        sides == draw_pixels(top,
                             [k \in 1..(2 * H) |->
                                 << IF k % 2 = 1 THEN 0 ELSE W - 1, (k - 1) \div 2 >>],
                             COLORS.WHITE, W, H)
        cross == draw_pixels(sides,
                             [k \in 1..10 |->
                                 IF k % 2 = 1
                                 THEN << (W \div 2) - 2 + ((k - 1) \div 2), H \div 2 >>
                                 ELSE << W \div 2, (H \div 2) - 2 + ((k - 1) \div 2) >>],
                             COLORS.RED, W, H)
        red == draw_pixel(cross, 1, 1, COLORS.RED, W, H)
        green == draw_pixel(red, W - 2, 1, COLORS.GREEN, W, H)
        blue == draw_pixel(green, 1, H - 2, COLORS.BLUE, W, H)
    IN draw_pixel(blue, W - 2, H - 2, COLORS.YELLOW, W, H)

\* No frame buffer is followed: the simulation and the codec run without a
\* renderer, and in the application's runs a frame is known by its packet only.
NoRenderer ==
    [width |-> 0, height |-> 0, background_color |-> BLACK, ground_color |-> BLACK,
     frame_buffer |-> << >>, debug_mode |-> FALSE]

\* MatrixRenderer.__init__
Renderer_init ==
    [width |-> MATRIX_WIDTH, height |-> MATRIX_HEIGHT,
     background_color |-> COLORS.BLACK, ground_color |-> COLORS.GREEN,
     frame_buffer |-> create_empty_matrix(MATRIX_WIDTH, MATRIX_HEIGHT),
     debug_mode |-> FALSE]

-----------------------------------------------------------------------------
(* The simulation alone: ticks with pad input, Mario's operations, reset *)

-----------------------------------------------------------------------------
(* serial_comm/serial_transmitter.py: operations *)

\* The outcomes of connect(): the port opens and the probe is written; opening
\* the port raises; the port opens and the probe's write raises.
ConnectOutcomes == {"ok", "open_fails", "probe_fails"}

\* The thread object _start_transmission_thread creates next.
NextWorker == IF workers["worker1"].pc = "unstarted" THEN "worker1" ELSE "worker2"

\* SerialTransmitter._start_transmission_thread
start_transmission_thread(t, w) == [t EXCEPT !.running = TRUE, !.transmit_thread = w]

\* SerialTransmitter.connect / MockSerialTransmitter.connect: the transmitter
\* after the call.
SerialTransmitter_connect(t, outcome, w) ==
    IF t.mock
    THEN start_transmission_thread(
             [t EXCEPT !.mock_connected = TRUE, !.connected = TRUE], w)
    ELSE CASE outcome = "ok" ->
                start_transmission_thread(
                    [t EXCEPT !.serial_connection = "open", !.connected = TRUE], w)
           [] outcome = "probe_fails" -> [t EXCEPT !.serial_connection = "None"]
           [] OTHER -> t

\* What connect() returns.
connect_returns(t, outcome) == t.mock \/ outcome = "ok"

\* The hooks connect() calls: on_connected after a successful connect, on_error
\* only from the except clause.
connect_hooks(t, h, outcome) ==
    IF connect_returns(t, outcome)
    THEN [h EXCEPT !.on_connected = @ + 1]
    ELSE IF outcome = "open_fails" THEN [h EXCEPT !.on_error = @ + 1] ELSE h

\* A send_frame that queues the buffer it was handed, not bytes made of it:
\* the queued object is the renderer's frame_buffer itself.
send_frame_reference(n, matrix) ==
    [id |-> n, len |-> PacketLen, alias |-> TRUE, data |-> << >>]

\* frame_data = matrix_to_serial_data(matrix) in send_frame: the object that is
\* queued is a bytes object of its own (alias: it is the buffer itself).
send_frame_packet(n, matrix) ==
    [id |-> n, len |-> Len(matrix_to_serial_data(matrix)), alias |-> FALSE,
     data |-> matrix_to_serial_data(matrix)]

\* A send_frame that makes room on a full queue by evicting the oldest packet.
send_frame_evicting(t, q, pkt) ==
    IF ~t.connected THEN q
    ELSE IF Len(q) >= QUEUE_MAXSIZE THEN Append(Tail(q), pkt)
    ELSE Append(q, pkt)

\* SerialTransmitter.send_frame: the queue after the call with packet pkt.
SerialTransmitter_send_frame(t, q, pkt) ==
    IF ~t.connected THEN q
    ELSE IF Len(q) >= QUEUE_MAXSIZE THEN q
    ELSE Append(q, pkt)

\* What send_frame returns.
send_frame_returns(t, q) == t.connected /\ Len(q) < QUEUE_MAXSIZE

\* The guard of send_frame_blocking.
send_frame_blocking_proceeds(t) == t.connected /\ t.serial_connection # "None"

\* MockSerialTransmitter._send_frame_data
Mock_send_frame_data(t, pkt) ==
    [t EXCEPT !.mock_frames = @ + 1, !.bytes_sent = @ + pkt.len]

\* SerialTransmitter._send_frame_data once write() and flush() have returned
\* (ok) or raised: the transmitter and the hooks.
send_frame_data_tx(t, pkt, ok) == IF ok THEN [t EXCEPT !.bytes_sent = @ + pkt.len] ELSE t

send_frame_data_hooks(h, ok) == IF ok THEN h ELSE [h EXCEPT !.on_error = @ + 1]

\* The worker's accounting of what _send_frame_data returned.
worker_count(t, success) ==
    IF success THEN [t EXCEPT !.frames_sent = @ + 1]
    ELSE [t EXCEPT !.transmission_errors = @ + 1]

\* A disconnect that closes the handle and leaves the connected flag set.
disconnect_flag_left(t) ==
    IF t.mock
    THEN [t EXCEPT !.running = FALSE, !.mock_connected = FALSE]
    ELSE [t EXCEPT !.serial_connection = "None"]

\* SerialTransmitter.disconnect after the join, MockSerialTransmitter.disconnect
\* as a whole.
SerialTransmitter_disconnect(t) ==
    IF t.mock
    THEN [t EXCEPT !.running = FALSE, !.mock_connected = FALSE, !.connected = FALSE]
    ELSE [t EXCEPT !.serial_connection = "None", !.connected = FALSE]

\* A thread's position after one of its blocking sends has returned.
AfterSend(th) ==
    IF th.k <= 1
    THEN [th EXCEPT !.pc = th.then, !.k = 0]
    ELSE [th EXCEPT !.pc = "send", !.k = th.k - 1]

txvars == <<tx, frame_queue, workers, sink, hooks, main>>

\* A world as GameWorld() builds it, a pad attached, the frame rate as main()
\* sets it from --fps.
WorldInit ==
    /\ world = GameWorld_init
    /\ controller = Controller_init(TRUE)
    /\ \E fps \in {1, 30} : app = App_set_fps(App_init, fps)
    /\ tx = Transmitter_init(TRUE)
    /\ frame_queue = << >>
    /\ workers = Workers_init
    /\ sink = Sink_init
    /\ hooks = Hooks_init
    /\ main = Main_init(1)
    /\ hist = Hist_init("busy")
    /\ codec = Codec_init
    /\ renderer = NoRenderer

\* One tick as MatrixMarioApp._update runs it: poll the pad, handle_input, update
\* with the frame interval as dt.  Without a pad there is no reading to change.
WorldTick ==
    /\ hist.ticks < MaxTicks
    /\ \E snapshot \in (IF controller.connected THEN PadSnapshots ELSE {Released}) :
          /\ snapshot # controller.button_states => hist.pad_changes < MaxPadChanges
          /\ controller' = Controller_update(controller, snapshot)
          /\ world' = GameWorld_update(GameWorld_handle_input(world, controller'),
                                       app.frame_time)
          /\ hist' = [hist EXCEPT !.ticks = hist.ticks + 1,
                                  !.pad_changes = IF snapshot # controller.button_states
                                                  THEN hist.pad_changes + 1
                                                  ELSE hist.pad_changes]
    /\ UNCHANGED <<app, txvars, codec, renderer>>

WorldReset ==
    /\ world' = GameWorld_reset(world)
    /\ hist' = [hist EXCEPT !.ticks = 0, !.calls = 0, !.pad_changes = 0,
                            !.ignored = 0]
    /\ UNCHANGED <<controller, app, txvars, codec, renderer>>

\* One call of an operation of Mario from outside the tick; ignored counts the
\* take_damage calls that found him invincible.
MarioCall(m, ignored) ==
    /\ hist.calls < MaxCalls
    /\ world' = [world EXCEPT !.mario = m]
    /\ hist' = [hist EXCEPT !.calls = hist.calls + 1,
                            !.ignored = hist.ignored + ignored]
    /\ UNCHANGED <<controller, app, txvars, codec, renderer>>

CallGrow == MarioCall(Mario_grow(world.mario), 0)

CallGetFirePower == MarioCall(Mario_get_fire_power(world.mario), 0)

CallTakeDamage ==
    MarioCall(Mario_take_damage(world.mario), IF world.mario.invincible THEN 1 ELSE 0)

\* Where respawn is asked to put Mario: in the air over the first enemy's path.
RespawnPoints == { <<16, 19>> }

CallRespawn == \E p \in RespawnPoints : MarioCall(Mario_respawn(world.mario, p[1], p[2]), 0)

WorldNext ==
    \/ WorldTick
    \/ WorldReset
    \/ CallGrow
    \/ CallGetFirePower
    \/ CallTakeDamage
    \/ CallRespawn

WorldSpec == WorldInit /\ [][WorldNext]_vars

-----------------------------------------------------------------------------
(* main_app.py and the transmitter's threads: one run of the application *)

\* MatrixMarioApp(use_mock_serial) before start(): no pad is attached, so the
\* game runs on its own.  initialize() runs once (main) or twice (the GUI's
\* GameThread.run calls initialize() and then start()).
Init ==
    /\ world = GameWorld_init
    /\ controller = Controller_init(FALSE)
    /\ app = App_init
    /\ \E mock \in BOOLEAN : tx = Transmitter_init(mock)
    /\ frame_queue = << >>
    /\ workers = Workers_init
    /\ sink = Sink_init
    /\ hooks = Hooks_init
    /\ \E inits \in {1, 2}, run \in Runs :
          /\ run = "twice" <=> inits = 2
          /\ main = Main_init(inits)
          /\ hist = Hist_init(run)
    /\ codec = Codec_init
    /\ renderer = NoRenderer

FrameLimit == IF hist.run = "quiet" THEN MaxFrames ELSE MaxBusyFrames

CommandLimit ==
    CASE hist.run = "busy" -> MaxCommands
      [] hist.run = "paused" -> MaxPauses
      [] OTHER -> 0

FailureLimit == IF hist.run \in {"quiet", "paused"} THEN 0 ELSE MaxFailures

\* initialize(): connect(); after a failed connect the user answers the
\* "Continue anyway?" prompt; when connected two test patterns are sent.
Initialize ==
    /\ main.pc = "initialize"
    /\ \E outcome \in ConnectOutcomes, continue \in BOOLEAN :
         LET ok == connect_returns(tx, outcome)
             w == NextWorker
             t == SerialTransmitter_connect(tx, outcome, w)
             after == IF main.inits > 1 THEN "initialize" ELSE "start"
         IN /\ tx' = t
            /\ hooks' = connect_hooks(tx, hooks, outcome)
            /\ workers' = IF ok THEN [workers EXCEPT ![w].pc = "check"] ELSE workers
            /\ hist' = IF ok THEN hist
                       ELSE [hist EXCEPT !.connect_failures = @ + 1]
            /\ main' = IF ~ok /\ ~continue
                       THEN [main EXCEPT !.pc = "stop", !.inits = 0]
                       ELSE IF t.connected
                       THEN [main EXCEPT !.pc = "send", !.k = 2, !.then = after,
                                         !.inits = @ - 1]
                       ELSE [main EXCEPT !.pc = after, !.inits = @ - 1]
    /\ UNCHANGED <<world, controller, app, frame_queue, sink, codec, renderer>>

\* start() after initialize(): the game-loop thread is started.
Start ==
    /\ main.pc = "start"
    /\ app' = [app EXCEPT !.running = TRUE, !.pc = "top", !.elapsed = 0]
    /\ main' = [main EXCEPT !.pc = "console"]
    /\ UNCHANGED <<world, controller, tx, frame_queue, workers, sink, hooks, hist, codec, renderer>>

\* send_frame_blocking called by the main thread (send_test_pattern,
\* clear_display): it returns at once, or enters write().
MainSend ==
    /\ main.pc = "send"
    /\ IF ~send_frame_blocking_proceeds(tx)
       THEN /\ main' = AfterSend(main)
            /\ UNCHANGED <<tx, sink>>
       ELSE IF tx.mock
       THEN /\ main' = AfterSend(main)
            /\ tx' = Mock_send_frame_data(tx, Packet(0))
            /\ UNCHANGED sink
       ELSE /\ main' = [main EXCEPT !.pc = "writing"]
            /\ sink' = [sink EXCEPT !.writers = @ \cup {"main"}]
            /\ UNCHANGED tx
    /\ UNCHANGED <<world, controller, app, frame_queue, workers, hooks, hist, codec, renderer>>

\* write() and flush() return to the main thread, or raise.
MainWritten ==
    /\ main.pc = "writing"
    /\ \E ok \in BOOLEAN :
         /\ ~ok => hist.failures < FailureLimit
         /\ tx' = send_frame_data_tx(tx, Packet(0), ok)
         /\ hooks' = send_frame_data_hooks(hooks, ok)
         /\ hist' = IF ok THEN hist ELSE [hist EXCEPT !.failures = @ + 1]
    /\ sink' = [sink EXCEPT !.writers = @ \ {"main"}]
    /\ main' = AfterSend(main)
    /\ UNCHANGED <<world, controller, app, frame_queue, workers, codec, renderer>>

\* The console commands of _handle_console_command other than q; status and
\* help only print, and x stands for a command that is not known.
Commands == {"p", "r", "t", "fps", "clear", "x"}

\* What is typed after "fps".
FpsInputs == {"1", "61", "abc"}

\* int(command.split()[1]) for the inputs that are numbers; for the others it
\* raises ValueError.
Numerals == [ i \in {"1", "61"} |-> IF i = "1" THEN 1 ELSE 61 ]

\* One console command; invalid counts the commands that are refused: an
\* unknown one, fps with no number or with a number outside 1..60.
Command ==
    /\ main.pc = "console"
    /\ app.running
    /\ main.commands < CommandLimit
    /\ \E command \in (IF hist.run = "paused" THEN {"p"} ELSE Commands), fps \in FpsInputs :
         /\ command # "fps" => fps = "1"
         /\ app' = CASE command = "p" -> [app EXCEPT !.paused = ~@]
                     [] command = "r" -> [app EXCEPT !.frame_count = 0]
                     [] command = "fps" /\ fps \in DOMAIN Numerals ->
                            App_set_fps(app, Numerals[fps])
                     [] OTHER -> app
         /\ world' = IF command = "r" THEN GameWorld_reset(world) ELSE world
         /\ main' = CASE command = "t" /\ tx.connected ->
                            [main EXCEPT !.pc = "send", !.k = 6, !.then = "console",
                                         !.commands = @ + 1]
                      [] command = "clear" /\ tx.connected ->
                            [main EXCEPT !.pc = "send", !.k = 1, !.then = "console",
                                         !.commands = @ + 1]
                      [] OTHER -> [main EXCEPT !.commands = @ + 1]
         /\ hist' = IF \/ command = "x"
                       \/ command = "fps" /\ fps \notin DOMAIN Numerals
                       \/ command = "fps" /\ fps \in DOMAIN Numerals
                                          /\ (Numerals[fps] < 1 \/ Numerals[fps] > 60)
                    THEN [hist EXCEPT !.invalid = @ + 1]
                    ELSE hist
    /\ UNCHANGED <<controller, tx, frame_queue, workers, sink, hooks, codec, renderer>>

\* The command "q".
Quit ==
    /\ hist.run \notin {"quiet", "paused"}
    /\ main.pc = "console"
    /\ app.running
    /\ app' = [app EXCEPT !.running = FALSE]
    /\ UNCHANGED <<world, controller, tx, frame_queue, workers, sink,
                   hooks, main, hist, codec, renderer>>

\* stop() up to the join of the game-loop thread.
Stop ==
    /\ \/ main.pc = "stop"
       \/ main.pc = "console" /\ ~app.running
    /\ app' = [app EXCEPT !.running = FALSE]
    /\ main' = [main EXCEPT !.pc = "join_game"]
    /\ UNCHANGED <<world, controller, tx, frame_queue, workers, sink, hooks, hist, codec, renderer>>

\* join(timeout=2.0) returns: the game-loop thread has ended, or it is in a
\* handler's sends and sleeps for longer than the timeout.  _cleanup follows.
Cleanup ==
    /\ main.pc = "join_game"
    /\ app.pc \in {"unstarted", "done", "send", "writing"}
    /\ main' = IF tx.connected
               THEN [main EXCEPT !.pc = "send", !.k = 1, !.then = "disconnect"]
               ELSE [main EXCEPT !.pc = "stopped"]
    /\ controller' = IF tx.connected THEN controller
                     ELSE PS5ControllerHandler_disconnect(controller)
    /\ UNCHANGED <<world, app, tx, frame_queue, workers, sink, hooks, hist, codec, renderer>>

\* disconnect() up to the join of the worker; the mock's disconnect has no join.
Disconnect ==
    /\ main.pc = "disconnect"
    /\ IF tx.mock
       THEN /\ tx' = SerialTransmitter_disconnect(tx)
            /\ hooks' = [hooks EXCEPT !.on_disconnected = @ + 1]
            /\ main' = [main EXCEPT !.pc = "stopped"]
            /\ controller' = PS5ControllerHandler_disconnect(controller)
       ELSE /\ tx' = [tx EXCEPT !.running = FALSE]
            /\ main' = [main EXCEPT !.pc = "join_worker"]
            /\ UNCHANGED <<hooks, controller>>
    /\ UNCHANGED <<world, app, frame_queue, workers, sink, hist, codec, renderer>>

\* join(timeout=1.0) returns: the worker has ended, or it is in a write() that
\* outlasts the timeout.  The handle is closed and the flags are cleared.
Disconnected ==
    /\ main.pc = "join_worker"
    /\ workers[tx.transmit_thread].pc \in {"done", "write"}
    /\ tx' = SerialTransmitter_disconnect(tx)
    /\ hooks' = [hooks EXCEPT !.on_disconnected = @ + 1]
    /\ main' = [main EXCEPT !.pc = "stopped"]
    /\ controller' = PS5ControllerHandler_disconnect(controller)
    /\ UNCHANGED <<world, app, frame_queue, workers, sink, hist, codec, renderer>>

\* The rest of a loop iteration once _update has returned: restart_game at the
\* end of _handle_level_complete, _render with its send_frame, _update_statistics
\* and the sleep up to the frame time.
EndIteration(w, a, h) ==
    LET n == h.sends + 1
        call == tx.connected
        w1 == IF a.then = "restart" THEN GameWorld_reset(w) ELSE w
        a1 == IF a.then = "restart" THEN [a EXCEPT !.frame_count = 0] ELSE a
    IN /\ world' = w1
       /\ frame_queue' = IF call THEN SerialTransmitter_send_frame(tx, frame_queue, Packet(n))
                         ELSE frame_queue
       /\ hist' = IF ~call THEN h
                  ELSE IF send_frame_returns(tx, frame_queue)
                  THEN [h EXCEPT !.sends = n, !.accepted = Append(@, n)]
                  ELSE [h EXCEPT !.sends = n, !.dropped = @ + 1]
       /\ app' = [a1 EXCEPT !.frame_count = @ + 1, !.pc = "top", !.then = "none",
                            !.elapsed = Max(a.frame_time, a.elapsed)]

\* The pause between two blocking sends of a handler, in sixtieths of a second.
GAME_OVER_NAP == 18
LEVEL_COMPLETE_NAP == 120

\* One iteration of _game_loop while not paused, up to the first blocking send
\* of a handler or, without one, to the end of the iteration.
GameTick ==
    /\ app.pc = "top"
    /\ app.running
    /\ ~app.paused
    /\ hist.frames < FrameLimit
    /\ \E snapshot \in IF controller.connected THEN PadSnapshots ELSE {Released} :
         LET c == Controller_update(controller, snapshot)
             w == GameWorld_update(GameWorld_handle_input(world, c), app.elapsed)
             h == [hist EXCEPT !.frames = @ + 1]
             a == [app EXCEPT !.elapsed = 0]
         IN /\ controller' = c
            /\ IF w.game_over /\ tx.connected
               THEN /\ world' = w
                    /\ app' = [a EXCEPT !.pc = "send", !.k = 6, !.then = "render"]
                    /\ hist' = h
                    /\ UNCHANGED frame_queue
               ELSE IF ~w.game_over /\ w.level_complete /\ tx.connected
               THEN /\ world' = w
                    /\ app' = [a EXCEPT !.pc = "send", !.k = 1, !.then = "restart"]
                    /\ hist' = h
                    /\ UNCHANGED frame_queue
               ELSE IF ~w.game_over /\ w.level_complete
               THEN EndIteration(w, [a EXCEPT !.then = "restart"], h)
               ELSE EndIteration(w, a, h)
    /\ UNCHANGED <<tx, workers, sink, hooks, main, codec, renderer>>

\* The time a handler sleeps after a send.
Nap(a) == IF a.then = "restart" THEN LEVEL_COMPLETE_NAP ELSE GAME_OVER_NAP

\* send_frame_blocking called by the game-loop thread from _handle_game_over or
\* _handle_level_complete.
GameSend ==
    /\ app.pc = "send"
    /\ IF ~send_frame_blocking_proceeds(tx)
       THEN /\ app' = [AfterSend(app) EXCEPT !.elapsed = @ + Nap(app)]
            /\ UNCHANGED <<tx, sink>>
       ELSE IF tx.mock
       THEN /\ app' = [AfterSend(app) EXCEPT !.elapsed = @ + Nap(app)]
            /\ tx' = Mock_send_frame_data(tx, Packet(0))
            /\ UNCHANGED sink
       ELSE /\ app' = [app EXCEPT !.pc = "writing"]
            /\ sink' = [sink EXCEPT !.writers = @ \cup {"game"}]
            /\ UNCHANGED tx
    /\ UNCHANGED <<world, controller, frame_queue, workers, hooks, main, hist, codec, renderer>>

\* write() and flush() return to the game-loop thread, or raise.
GameWritten ==
    /\ app.pc = "writing"
    /\ \E ok \in BOOLEAN :
         /\ ~ok => hist.failures < FailureLimit
         /\ tx' = send_frame_data_tx(tx, Packet(0), ok)
         /\ hooks' = send_frame_data_hooks(hooks, ok)
         /\ hist' = IF ok THEN hist ELSE [hist EXCEPT !.failures = @ + 1]
    /\ sink' = [sink EXCEPT !.writers = @ \ {"game"}]
    /\ app' = [AfterSend(app) EXCEPT !.elapsed = @ + Nap(app)]
    /\ UNCHANGED <<world, controller, frame_queue, workers, main, codec, renderer>>

\* The handler has returned.
GameRender ==
    /\ app.pc \in {"render", "restart"}
    /\ EndIteration(world, app, hist)
    /\ UNCHANGED <<controller, tx, workers, sink, hooks, main, codec, renderer>>

\* A paused iteration that counts a frame all the same.
GamePausedCounting ==
    /\ app.pc = "top"
    /\ app.running
    /\ app.paused
    /\ app.elapsed + app.frame_time <= MaxPausedTime
    /\ app' = [app EXCEPT !.elapsed = @ + app.frame_time, !.frame_count = @ + 1]
    /\ UNCHANGED <<world, controller, tx, frame_queue, workers, sink,
                   hooks, main, hist, codec, renderer>>

\* An iteration while paused: only the sleep.
GamePaused ==
    /\ app.pc = "top"
    /\ app.running
    /\ app.paused
    /\ app.elapsed + app.frame_time <= MaxPausedTime
    /\ app' = [app EXCEPT !.elapsed = @ + app.frame_time]
    /\ UNCHANGED <<world, controller, tx, frame_queue, workers, sink,
                   hooks, main, hist, codec, renderer>>

\* The loop's condition fails and the thread ends.
GameExit ==
    /\ app.pc = "top"
    /\ ~app.running
    /\ app' = [app EXCEPT !.pc = "done"]
    /\ UNCHANGED <<world, controller, tx, frame_queue, workers, sink,
                   hooks, main, hist, codec, renderer>>

\* _transmission_worker: the loop's condition.
WorkerCheck(w) ==
    /\ workers[w].pc = "check"
    /\ workers' = [workers EXCEPT ![w].pc = IF tx.running /\ tx.connected
                                            THEN "get" ELSE "done"]
    /\ UNCHANGED <<world, controller, app, tx, frame_queue, sink,
                   hooks, main, hist, codec, renderer>>

\* frame_queue.get(timeout=0.1): Empty is raised, or a packet is taken; without
\* a serial handle the packet is let go, the mock's _send_frame_data stores it,
\* the real one enters write().
WorkerGet(w) ==
    /\ workers[w].pc = "get"
    /\ IF frame_queue = << >>
       THEN /\ workers' = [workers EXCEPT ![w].pc = "check"]
            /\ UNCHANGED <<tx, frame_queue, sink, hist>>
       ELSE LET frame_data == Head(frame_queue)
            IN /\ frame_queue' = Tail(frame_queue)
               /\ hist' = [hist EXCEPT !.popped = Append(@, frame_data.id)]
               /\ IF tx.serial_connection = "None"
                  THEN /\ workers' = [workers EXCEPT ![w].pc = "check"]
                       /\ UNCHANGED <<tx, sink>>
                  ELSE IF tx.mock
                  THEN /\ workers' = [workers EXCEPT ![w].pc = "check"]
                       /\ tx' = worker_count(Mock_send_frame_data(tx, frame_data), TRUE)
                       /\ UNCHANGED sink
                  ELSE /\ workers' = [workers EXCEPT ![w].pc = "write",
                                                     ![w].frame_data = frame_data]
                       /\ sink' = [sink EXCEPT !.writers = @ \cup {w}]
                       /\ UNCHANGED tx
    /\ UNCHANGED <<world, controller, app, hooks, main, codec, renderer>>

\* write() and flush() return to the worker, or raise; the worker counts the
\* result.
WorkerWritten(w) ==
    /\ workers[w].pc = "write"
    /\ \E ok \in BOOLEAN :
         /\ ~ok => hist.failures < FailureLimit
         /\ tx' = worker_count(send_frame_data_tx(tx, workers[w].frame_data, ok), ok)
         /\ hooks' = send_frame_data_hooks(hooks, ok)
         /\ hist' = IF ok THEN hist ELSE [hist EXCEPT !.failures = @ + 1]
         /\ sink' = [sink EXCEPT !.writers = @ \ {w},
                                 !.wire = IF ok THEN @ \cup {workers[w].frame_data.id}
                                          ELSE @]
    /\ workers' = [workers EXCEPT ![w].pc = "check", ![w].frame_data = NoPacket]
    /\ UNCHANGED <<world, controller, app, frame_queue, main, codec, renderer>>

Next ==
    \/ Initialize
    \/ Start
    \/ MainSend
    \/ MainWritten
    \/ Command
    \/ Quit
    \/ Stop
    \/ Cleanup
    \/ Disconnect
    \/ Disconnected
    \/ GameTick
    \/ GameSend
    \/ GameWritten
    \/ GameRender
    \/ GamePaused
    \/ GameExit
    \/ \E w \in Workers : WorkerCheck(w)
    \/ \E w \in Workers : WorkerGet(w)
    \/ \E w \in Workers : WorkerWritten(w)

Spec == Init /\ [][Next]_vars

\* The same run with the scheduling the threads rely on: a worker that can take
\* a step does so (get() returns within its 0.1 s timeout, write() within the
\* 1 s write_timeout).
LiveSpec ==
    /\ Spec
    /\ \A w \in Workers :
          /\ WF_vars(WorkerCheck(w))
          /\ WF_vars(WorkerGet(w))
          /\ WF_vars(WorkerWritten(w))

-----------------------------------------------------------------------------
(* Properties *)

\* The send_frame call numbers of the packets in a queue, oldest first.
Ids(q) == [i \in 1..Len(q) |-> q[i].id]

\* The counters the transmitter keeps (get_status reports no others).
Counters == {"frames_sent", "bytes_sent", "transmission_errors"}

\* C1: the frame queue never holds more than 10 packets, and after 11 send_frame
\* calls with no pop there are exactly 10 packets queued, exactly 1 packet was
\* dropped, and a counter of the transmitter stands at 1 for the drop.
C1_QueueBackpressure ==
    /\ Len(frame_queue) <= QUEUE_MAXSIZE
    /\ (hist.sends = QUEUE_MAXSIZE + 1 /\ hist.popped = << >>)
          => /\ Len(frame_queue) = QUEUE_MAXSIZE
             /\ hist.dropped = 1
             /\ \E c \in Counters : tx[c] = hist.dropped

\* C2: a send_frame on a full queue leaves the queue as it was and the new
\* packet is the one dropped; the packets taken by the worker followed by the
\* packets still queued are exactly the accepted packets in the order of their
\* acceptance, so they come out in that order and none twice.
C2_DiscardNewestFifo ==
    /\ [](hist.accepted = hist.popped \o Ids(frame_queue))
    /\ [][(hist'.sends = hist.sends + 1 /\ Len(frame_queue) = QUEUE_MAXSIZE)
             => /\ frame_queue' = frame_queue
                /\ hist'.dropped = hist.dropped + 1
                /\ hist'.accepted = hist.accepted]_vars

\* C2, its case: the queue is full, a packet has been dropped and the worker has
\* taken packets before.
C2_Witness ==
    /\ Len(frame_queue) = QUEUE_MAXSIZE
    /\ hist.dropped > 0
    /\ Len(hist.popped) > 0

\* C3: the game-loop thread is never inside a blocking write to the sink.
C3_GameLoopNeverWrites == "game" \notin sink.writers

\* C4: a packet the worker takes from the queue while the transmitter is
\* connected goes into a write to the sink or is counted at once in frames_sent
\* or transmission_errors.
C4_PoppedPacketCounted ==
    [][(Len(hist'.popped) = Len(hist.popped) + 1 /\ tx.connected)
          => \/ \E w \in Workers : workers[w].pc = "get" /\ workers'[w].pc = "write"
             \/ tx'.frames_sent + tx'.transmission_errors
                   = tx.frames_sent + tx.transmission_errors + 1]_vars

\* C5: at no moment are two writes to the sink in progress, and a thread that
\* is writing is a transmission worker.
C5_SingleWriter ==
    /\ Cardinality(sink.writers) <= 1
    /\ sink.writers \subseteq Workers

\* C6: a write to the sink that fails during a session leaves the connected
\* flag false, adds exactly 1 to transmission_errors and calls the error hook.
C6_WriteFailureDisconnects ==
    [][hist'.failures = hist.failures + 1
          => /\ ~tx'.connected
             /\ tx'.transmission_errors = tx.transmission_errors + 1
             /\ hooks'.on_error = hooks.on_error + 1]_vars

\* C7: a connect() that fails calls on_error, starts no worker and leaves
\* connected false.
C7_FailedConnectReported ==
    [][hist'.connect_failures = hist.connect_failures + 1
          => /\ hooks'.on_error = hooks.on_error + 1
             /\ workers' = workers
             /\ ~tx'.connected]_vars

\* C8: when disconnect() returns, connected and running are false and
\* on_disconnected has been called exactly once by it; from then on the workers
\* started by the transmitter eventually end.
C8_Disconnect ==
    /\ [][hooks'.on_disconnected # hooks.on_disconnected
             => /\ tx.connected
                /\ ~tx'.connected
                /\ ~tx'.running
                /\ hooks'.on_disconnected = hooks.on_disconnected + 1]_vars
    /\ (hooks.on_disconnected > 0)
          ~> (\A w \in Workers : workers[w].pc \in {"unstarted", "done"})

\* C8, its case: disconnect() has returned while the worker was still alive,
\* inside a write.
C8_Witness ==
    /\ hooks.on_disconnected = 1
    /\ ~tx.mock
    /\ workers[tx.transmit_thread].pc = "write"

\* Mario stands still on the ground and may jump.
AtRest(m) ==
    /\ m.active
    /\ m.on_ground
    /\ m.y + m.height = MATRIX_HEIGHT - GROUND_HEIGHT
    /\ m.vx = 0
    /\ m.vy = 0
    /\ m.jump_timer <= 0

\* C9: with Mario at rest on the ground and jump_timer <= 0, a tick whose pad
\* reading has a fresh press of jump leaves vy < 0 and on_ground false.
C9_JumpLeavesGround ==
    [][(/\ AtRest(world.mario)
        /\ ~world.game_over
        /\ hist'.ticks = hist.ticks + 1
        /\ is_just_pressed(controller', "jump"))
          => /\ world'.mario.vy < 0
             /\ ~world'.mario.on_ground]_vars

\* C10: Mario is active exactly when lives > 0, and an inactive Mario becomes
\* active again only by reset rebuilding the world.
C10_ActiveIffLives ==
    /\ [](world.mario.active <=> world.mario.lives > 0)
    /\ [][(~world.mario.active /\ world'.mario.active)
             => world' = GameWorld_reset(world)]_vars

\* C10, its case: the last life is lost, and a respawn has been asked for since.
C10_Witness ==
    /\ ~world.mario.active
    /\ world.mario.lives = 0
    /\ hist.calls > MARIO_LIVES

\* A step of the world that is one call of mario.take_damage() from outside
\* the tick.
TakeDamageStep ==
    /\ hist'.calls = hist.calls + 1
    /\ world' = [world EXCEPT !.mario = Mario_take_damage(world.mario)]

\* C11: a damage event (take_damage on an active Mario who is not invincible)
\* after which a life is left decreases lives by exactly 1 and leaves Mario
\* invincible with invincible_timer > 0.
C11_DamageCostsLife ==
    [][(/\ TakeDamageStep
        /\ world.mario.active
        /\ ~world.mario.invincible
        /\ world'.mario.lives > 0)
          => /\ world'.mario.lives = world.mario.lives - 1
             /\ world'.mario.invincible
             /\ world'.mario.invincible_timer > 0]_vars

\* C12: take_damage on an invincible Mario returns False and leaves Mario as he
\* was (state, height, lives, active, vx, vy, invincible_timer and every other
\* field), however many times it is called inside the window.
C12_InvincibleIgnoresDamage ==
    [][hist'.ignored = hist.ignored + 1
          => /\ world.mario.invincible
             /\ ~Mario_take_damage_returns(world.mario)
             /\ world'.mario = world.mario
             /\ world'.game_over = world.game_over]_vars

\* C12, its case: take_damage has been called twice on an invincible Mario, who
\* is still inside the window.
C12_Witness ==
    /\ world.mario.invincible
    /\ world.mario.invincible_timer > 0
    /\ hist.ignored >= 2

\* GameWorld.update up to the second loop of _check_collisions: Mario and the
\* dynamic sprites updated and the static collisions handled.
before_dynamic_pass(w, dt) ==
    StaticPass([w EXCEPT !.mario = Mario_update(w.mario, dt),
                         !.dynamic_sprites = UpdateDynamic(w.dynamic_sprites, dt)], 1)

\* The world as the second loop of _check_collisions finds it in the tick that
\* is being taken.
TickMid ==
    before_dynamic_pass(GameWorld_handle_input(world, controller'), app.frame_time)

\* A step that is a tick in which GameWorld.update does not return early.
LiveTick ==
    /\ hist'.ticks = hist.ticks + 1
    /\ ~world.game_over
    /\ world.mario.active

\* The active sprites of one kind that Mario overlaps.
Overlapped(w, kind) ==
    { i \in 1..Len(w.dynamic_sprites) :
          /\ w.dynamic_sprites[i].kind = kind
          /\ w.dynamic_sprites[i].active
          /\ is_collision(w.mario, w.dynamic_sprites[i]) }

Elements(list) == { list[i] : i \in 1..Len(list) }

-----------------------------------------------------------------------------
(* Bricks: Brick.hit called on the bricks of the level, between ticks *)

Bricks(w) == { i \in 1..Len(w.static_sprites) : w.static_sprites[i].kind = "Brick" }

\* brick.hit() on one of the level's bricks, whatever state the brick is in.
CallHit ==
    /\ hist.calls < MaxCalls
    /\ \E i \in Bricks(world) :
          world' = [world EXCEPT !.static_sprites[i] = Brick_hit(world.static_sprites[i])]
    /\ hist' = [hist EXCEPT !.calls = hist.calls + 1]
    /\ UNCHANGED <<controller, app, txvars, codec, renderer>>

BrickNext ==
    \/ WorldTick
    \/ WorldReset
    \/ CallHit

BrickSpec == WorldInit /\ [][BrickNext]_vars

\* C14: a hit on an active brick destroys it and reports it destroyed (the
\* report is what the 50 points are paid for), and a destroyed brick is left
\* alone by everything but reset's rebuilding of the level: no hit reported, no
\* change of hit_count, never active again.
C14_BrickHitOnce ==
    [][world' # GameWorld_reset(world) =>
          \A i \in Bricks(world) :
             IF world.static_sprites[i].active
             THEN world'.static_sprites[i] # world.static_sprites[i]
                     => /\ ~world'.static_sprites[i].active
                        /\ world'.static_sprites[i].hit_count = 1
                        /\ Brick_hit_returns(world.static_sprites[i])
             ELSE /\ world'.static_sprites[i] = world.static_sprites[i]
                  /\ world'.score = world.score]_vars

-----------------------------------------------------------------------------
(* The level: ticks, with Mario, small or grown, put at places of the level *)

\* Where respawn puts Mario here: on the second coin of the level, over the
\* first enemy's path, and on the ground at the right edge of the level.
LevelPoints == { <<16, 15>>, <<16, 19>>, <<34, 20>> }

CallRespawnAt ==
    \E p \in LevelPoints : MarioCall(Mario_respawn(world.mario, p[1], p[2]), 0)

LevelNext ==
    \/ WorldTick
    \/ WorldReset
    \/ CallRespawnAt
    \/ CallGrow

LevelSpec == WorldInit /\ [][LevelNext]_vars

Count(list, kind) == Cardinality({ i \in 1..Len(list) : list[i].kind = kind })

\* C15: the score is 100 for every coin and 200 for every enemy that has left
\* the level, and nothing else: no coin and no enemy is paid for twice, however
\* many ticks Mario spends where it was.
C15_PointsOnce ==
    /\ world.score =
           COIN_POINTS * (Count(GameWorld_init.dynamic_sprites, "Coin")
                            - Count(world.dynamic_sprites, "Coin"))
         + ENEMY_POINTS * (Count(GameWorld_init.dynamic_sprites, "Enemy")
                             - Count(world.dynamic_sprites, "Enemy"))
    /\ world.mario.score = world.score
    /\ \A i \in 1..Len(world.dynamic_sprites) : world.dynamic_sprites[i].active

\* C15, its case: put on the second coin, Mario landed on the platform under it
\* in the tick that collected it, and the next tick found him on the coin's place
\* again (on_ground is cleared by the tick after a landing).
C15_Witness ==
    /\ hist.ticks = 2
    /\ world.mario.y + world.mario.height = GameWorld_init.static_sprites[2].y
    /\ ~world.mario.on_ground
    /\ world.mario.vy = 0
    /\ is_collision(world.mario, Coin_init(16, 15))
    /\ Count(world.dynamic_sprites, "Coin")
           = Count(GameWorld_init.dynamic_sprites, "Coin") - 1
    /\ world.score = COIN_POINTS

-----------------------------------------------------------------------------
(* Mario's power state and height over the operations of WorldSpec *)

\* The step took Mario through take_damage with the hit landing: a call from
\* outside the tick on a Mario who is not invincible, or an enemy's hit in a
\* tick, which opens a fresh invincibility window.
DamageLanded ==
    \/ TakeDamageStep /\ ~world.mario.invincible
    \/ /\ LiveTick
       /\ world'.mario.invincible
       /\ world'.mario.invincible_timer = INVINCIBLE_DURATION

\* The step is respawn(x, y) on a Mario with a life left.
RespawnStep ==
    /\ hist'.calls = hist.calls + 1
    /\ world.mario.lives > 0
    /\ \E p \in RespawnPoints :
          world' = [world EXCEPT !.mario = Mario_respawn(world.mario, p[1], p[2])]

\* C16: unless reset builds a new Mario, state changes only from small to big by
\* grow, from small or big to fire by get_fire_power (with big Mario's height),
\* from fire to big and from big to small by a hit that lands, and to small by
\* respawn with lives > 0; grow on big or fire and get_fire_power on fire leave
\* Mario as he is.
C16_PowerEdges ==
    /\ [][(world'.mario.state # world.mario.state /\ world' # GameWorld_reset(world))
             => LET m == world.mario
                    n == world'.mario
                IN \/ /\ m.state = "small" /\ n.state = "big"
                      /\ hist'.calls = hist.calls + 1
                      /\ n = Mario_grow(m)
                   \/ /\ m.state \in {"small", "big"} /\ n.state = "fire"
                      /\ hist'.calls = hist.calls + 1
                      /\ n = Mario_get_fire_power(m)
                      /\ n.height = MARIO_HEIGHT + 1
                   \/ /\ m.state = "fire" /\ n.state = "big"
                      /\ DamageLanded
                   \/ /\ m.state = "big" /\ n.state = "small"
                      /\ DamageLanded
                   \/ /\ n.state = "small"
                      /\ RespawnStep]_vars
    /\ [](world.mario.state \in {"big", "fire"} => Mario_grow(world.mario) = world.mario)
    /\ [](world.mario.state = "fire"
             => Mario_get_fire_power(world.mario) = world.mario)

\* C16, its case: a fire Mario has been hit and is big again, inside the window
\* the hit opened, and two more operations have been called on him since.
C16_Witness ==
    /\ world.mario.state = "big"
    /\ world.mario.color = "MARIO_SHIRT"
    /\ world.mario.invincible
    /\ hist.calls = MaxCalls
    /\ hist.ticks = 0

\* The step is one call of grow, get_fire_power or take_damage.
PowerCallStep ==
    /\ hist'.calls = hist.calls + 1
    /\ world'.mario \in { Mario_grow(world.mario),
                          Mario_get_fire_power(world.mario),
                          Mario_take_damage(world.mario) }

\* C17: Mario's height changes only in a step that changes his state (reset's
\* new Mario aside), and a call of grow, get_fire_power or take_damage leaves
\* his bottom edge y + height where it was.
C17_FeetAnchored ==
    /\ [][(world'.mario.height # world.mario.height
             /\ world' # GameWorld_reset(world))
            => world'.mario.state # world.mario.state]_vars
    /\ [][PowerCallStep
            => world'.mario.y + world'.mario.height
                   = world.mario.y + world.mario.height]_vars

\* The level is as wide as DynamicSprite.update lets a sprite go, and the view
\* is as wide as _is_sprite_visible takes it to be: both are the matrix width.
WORLD_WIDTH == MATRIX_WIDTH

VIEWPORT_WIDTH == MATRIX_WIDTH

\* C18: after every tick camera_x is in [0, WORLD_WIDTH - VIEWPORT_WIDTH]; it is
\* 0 with Mario at x = 0 and WORLD_WIDTH - VIEWPORT_WIDTH with Mario at the
\* right edge of the level.
C18_CameraClamp ==
    [][LiveTick
         => /\ world'.camera_x >= 0
            /\ world'.camera_x <= WORLD_WIDTH - VIEWPORT_WIDTH
            /\ world'.mario.x = 0 => world'.camera_x = 0
            /\ world'.mario.x = WORLD_WIDTH - world'.mario.width
                  => world'.camera_x = WORLD_WIDTH - VIEWPORT_WIDTH]_vars

-----------------------------------------------------------------------------
(* The codec alone: a buffer is encoded, encoded once more, and decoded *)

MaxWidth == 2

MaxHeight == 2

\* The pixels a buffer is filled with: black, red, and one made of marker bytes.
Pixels == { BLACK, << 255, 0, 0 >>, << 254, 253, 252 >> }

\* Every height x width buffer of such pixels, as create_empty_matrix lays it
\* out: a list of rows, each a list of [r, g, b].
Matrices(width, height) == [1..height -> [1..width -> Pixels]]

CodecInit ==
    /\ world = GameWorld_init
    /\ controller = Controller_init(FALSE)
    /\ app = App_init
    /\ tx = Transmitter_init(TRUE)
    /\ frame_queue = << >>
    /\ workers = Workers_init
    /\ sink = Sink_init
    /\ hooks = Hooks_init
    /\ main = Main_init(1)
    /\ hist = Hist_init("quiet")
    /\ renderer = NoRenderer
    /\ \E width \in 0..MaxWidth, height \in 0..MaxHeight :
          \E matrix \in Matrices(width, height) :
             codec = [Codec_init EXCEPT !.pc = "buffer", !.width = width,
                                        !.height = height, !.matrix = matrix]

noncodec == <<world, controller, tx, frame_queue, workers, sink, hooks, app, main, hist,
             renderer>>

\* frame_data = matrix_to_serial_data(matrix)
CodecEncode ==
    /\ codec.pc = "buffer"
    /\ codec' = [codec EXCEPT !.pc = "encoded",
                              !.data = matrix_to_serial_data(codec.matrix)]
    /\ UNCHANGED noncodec

\* The same buffer handed to matrix_to_serial_data a second time.
CodecEncodeAgain ==
    /\ codec.pc = "encoded"
    /\ codec' = [codec EXCEPT !.pc = "again",
                              !.again = matrix_to_serial_data(codec.matrix)]
    /\ UNCHANGED noncodec

\* serial_data_to_matrix(frame_data, width, height)
CodecDecode ==
    /\ codec.pc \in {"encoded", "again"}
    /\ codec' = [codec EXCEPT !.pc = "decoded",
                              !.decoded = serial_data_to_matrix(codec.data, codec.width,
                                                                codec.height)]
    /\ UNCHANGED noncodec

\* src/serial_transmitter.py _build_data_packet: the frame's first two bytes
\* and its last one.
FRAME_HEADER == << 170, 85 >>

FRAME_FOOTER == << 13 >>

\* struct.pack('<H', n): two bytes, the low one first.
pack_H(n) == << n % 256, n \div 256 >>

\* a ^ b on bytes
RECURSIVE Xor(_, _)
Xor(a, b) ==
    IF a = 0 THEN b
    ELSE IF b = 0 THEN a
    ELSE ((a + b) % 2) + 2 * Xor(a \div 2, b \div 2)

\* The checksum loop of _build_data_packet: checksum ^= byte for every byte.
RECURSIVE xor_checksum(_, _)
xor_checksum(checksum, rgb_data) ==
    IF Len(rgb_data) = 0 THEN checksum
    ELSE xor_checksum(Xor(checksum, Head(rgb_data)), Tail(rgb_data))

\* src/serial_transmitter.py SerialTransmitter._build_data_packet
build_data_packet(matrix_data) ==
    LET data_length == MATRIX_WIDTH * MATRIX_HEIGHT * 3
        rgb_data == extend_rows(matrix_data)
    IN FRAME_HEADER \o pack_H(data_length) \o rgb_data
          \o << xor_checksum(0, rgb_data) % 256 >> \o FRAME_FOOTER

\* data_packet = self._build_data_packet(matrix_data)
CodecBuildPacket ==
    /\ codec.pc = "buffer"
    /\ codec' = [codec EXCEPT !.pc = "packet",
                              !.data = build_data_packet(codec.matrix)]
    /\ UNCHANGED noncodec

CodecNext ==
    \/ CodecEncode
    \/ CodecEncodeAgain
    \/ CodecDecode
    \/ CodecBuildPacket

CodecSpec == CodecInit /\ [][CodecNext]_vars

\* C19: decoding the bytes of a width x height buffer with that width and
\* height gives the buffer back, and a second encoding of the buffer gives the
\* same bytes as the first.
C19_RoundTrip ==
    /\ codec.pc = "decoded" => codec.decoded = codec.matrix
    /\ Len(codec.again) > 0 => codec.again = codec.data

\* C19, its case: a full-size buffer whose pixels differ along a row and along
\* a column has been encoded twice and decoded.
C19_Witness ==
    /\ codec.pc = "decoded"
    /\ Len(codec.again) > 0
    /\ codec.width = MaxWidth
    /\ codec.height = MaxHeight
    /\ codec.matrix[1][1] # codec.matrix[1][2]
    /\ codec.matrix[1][2] # codec.matrix[2][1]
    /\ codec.matrix[MaxHeight][MaxWidth] # BLACK

-----------------------------------------------------------------------------
(* The mock transmitter's blocking sends *)

\* A step in which thread th (its record before and after) returns from or
\* goes into a call of send_frame_blocking.
BlockingCall(th, th2) == th.pc = "send" /\ th2 # th

\* C21: on a MockSerialTransmitter connect() sets connected, every call of
\* send_frame_blocking made while it is connected stores exactly one more frame
\* in mock_frames, and disconnect() clears connected.
C21_MockStoresEveryFrame ==
    [][tx.mock =>
         /\ (main.pc = "initialize" /\ main'.pc # "initialize" => tx'.connected)
         /\ (tx.connected /\ (BlockingCall(main, main') \/ BlockingCall(app, app'))
               => tx'.mock_frames = tx.mock_frames + 1)
         /\ (main.pc = "disconnect" /\ main'.pc # "disconnect" => ~tx'.connected)]_vars

-----------------------------------------------------------------------------
(* The renderer with the simulation: ticks, resets, respawns and renders *)

\* Calls of render_frame and render_test_pattern in one run.
MaxRenders == 1

\* The application's world and renderer, no pad attached.
RenderInit ==
    /\ world = GameWorld_init
    /\ controller = Controller_init(FALSE)
    /\ app = App_init
    /\ tx = Transmitter_init(TRUE)
    /\ frame_queue = << >>
    /\ workers = Workers_init
    /\ sink = Sink_init
    /\ hooks = Hooks_init
    /\ main = Main_init(1)
    /\ hist = Hist_init("quiet")
    /\ codec = Codec_init
    /\ renderer = Renderer_init

\* Where respawn is asked to put Mario: the top left corner, where the lives
\* and the score are drawn, and the right end of the level.
RenderPoints == { <<0, 0>>, <<31, 20>> }

CallRespawnIn ==
    \E p \in RenderPoints : MarioCall(Mario_respawn(world.mario, p[1], p[2]), 0)

\* matrix = self.renderer.render_frame(self.world)
Render ==
    /\ hist.renders + hist.patterns < MaxRenders
    /\ LET out == render_frame(renderer, world)
       IN /\ renderer' = [renderer EXCEPT !.frame_buffer = out.frame_buffer]
          /\ world' = out.world
    /\ hist' = [hist EXCEPT !.renders = hist.renders + 1]
    /\ UNCHANGED <<controller, app, txvars, codec>>

\* self.renderer.render_test_pattern()
RenderTestPattern ==
    /\ hist.renders + hist.patterns < MaxRenders
    /\ renderer' = [renderer EXCEPT !.frame_buffer = render_test_pattern(renderer)]
    /\ hist' = [hist EXCEPT !.patterns = hist.patterns + 1]
    /\ UNCHANGED <<world, controller, app, txvars, codec>>

RenderNext ==
    \/ WorldTick
    \/ WorldReset
    \/ CallRespawnIn
    \/ CallGrow
    \/ Render
    \/ RenderTestPattern

RenderSpec == RenderInit /\ [][RenderNext]_vars

\* The cells of the screen that Mario's rectangle covers in world w.
MarioCells(w) ==
    { c \in (0..(MATRIX_WIDTH - 1)) \X (0..(MATRIX_HEIGHT - 1)) :
        /\ w.mario.x - w.camera_x <= c[1]
        /\ c[1] < w.mario.x - w.camera_x + w.mario.width
        /\ w.mario.y <= c[2]
        /\ c[2] < w.mario.y + w.mario.height }

\* C22: in every frame render_frame returns, every cell of the screen that the
\* active, visible Mario covers shows his draw colour.
C22_PlayerOnTop ==
    [][hist'.renders = hist.renders + 1 /\ world' = world
         /\ world.mario.active /\ world.mario.visible
         => \A c \in MarioCells(world) :
               renderer'.frame_buffer[c[2]][c[1]] = get_animation_color(world.mario)]_vars

C24_BufferShape ==
    /\ DOMAIN renderer.frame_buffer = 0..(MATRIX_HEIGHT - 1)
    /\ \A y \in DOMAIN renderer.frame_buffer :
          /\ DOMAIN renderer.frame_buffer[y] = 0..(MATRIX_WIDTH - 1)
          /\ \A x \in DOMAIN renderer.frame_buffer[y] :
                renderer.frame_buffer[y][x] \in (0..255) \X (0..255) \X (0..255)

\* The frame of a world in which Mario's rectangle reaches above the screen:
\* the part on the screen is drawn, a lives pixel over its first row.
C24_Witness ==
    /\ hist.renders >= 1
    /\ world.mario.y < 0
    /\ world.mario.y + world.mario.height > 0
    /\ renderer.frame_buffer = render_frame(renderer, world).frame_buffer
    /\ renderer.frame_buffer[0][world.mario.x] = COLORS.RED
    /\ renderer.frame_buffer[1][world.mario.x] = get_animation_color(world.mario)

-----------------------------------------------------------------------------
(* The game loop and the console *)

\* A step of the game-loop thread: a tick is counted, time passes in the loop
\* or the thread moves on.
GameStep ==
    hist'.frames # hist.frames \/ app'.elapsed # app.elapsed \/ app'.pc # app.pc

\* C25: an iteration of the game loop that finds paused set reads no pad,
\* updates no world, sends no frame and counts none, and the loop goes on;
\* an iteration that finds paused cleared, and so the first one after a
\* resume, runs a tick.
C25_PausedLoopIdles ==
    [][app.pc = "top" /\ app.running /\ GameStep =>
         IF app.paused
         THEN /\ world' = world
              /\ controller' = controller
              /\ frame_queue' = frame_queue
              /\ hist'.frames = hist.frames
              /\ hist'.sends = hist.sends
              /\ app'.frame_count = app.frame_count
              /\ app'.pc = "top"
         ELSE hist'.frames = hist.frames + 1]_vars

\* The first tick after a pause and a resume that came before any tick: its dt
\* is the time the loop has spent paused.
C25_Witness ==
    /\ hist.run = "paused"
    /\ main.commands = MaxPauses
    /\ ~app.paused
    /\ app.running
    /\ hist.frames = 1
    /\ app.frame_count = 1
    /\ world.mario.animation_timer = MaxPausedTime

\* C26: a console command that is refused (an unknown one, fps with something
\* that is no number, fps with a number outside 1..60) leaves target_fps,
\* frame_time, paused and running as they were, and at all times target_fps
\* is in 1..60 with frame_time the frame interval of target_fps.
C26_RefusedCommandNoEffect ==
    /\ [](/\ 1 <= app.target_fps
          /\ app.target_fps <= 60
          /\ app.frame_time = FrameTime(app.target_fps))
    /\ [][hist'.invalid = hist.invalid + 1 =>
            /\ app'.target_fps = app.target_fps
            /\ app'.frame_time = app.frame_time
            /\ app'.paused = app.paused
            /\ app'.running = app.running]_vars

\* A refused command has been typed into a running game.
C26_Witness ==
    /\ hist.invalid = 1
    /\ main.commands = 1
    /\ main.pc = "console"
    /\ app.running
    /\ app.target_fps = GAME_FPS
    /\ hist.frames >= 1

\* C27: a coin, enemy or brick that is inactive when a tick starts in which the
\* world is updated is in neither static_sprites nor dynamic_sprites when the
\* tick ends.
C27_InactivePurged ==
    [][LiveTick =>
         \A s \in Elements(world.static_sprites) \cup Elements(world.dynamic_sprites) :
            ~s.active => s \notin Elements(world'.static_sprites)
                                     \cup Elements(world'.dynamic_sprites)]_vars

\* C28: reset() leaves, whatever the world was, the world a new GameWorld()
\* is: the level's sprites at their first places and active, small Mario with
\* 3 lives and no score, score 0, camera 0, game_over and level_complete false.
C28_ResetIsFresh ==
    [][hist'.ticks = 0 /\ hist'.calls = 0 =>
         /\ world' = GameWorld_init
         /\ world'.mario.state = "small"
         /\ world'.mario.lives = MARIO_LIVES
         /\ world'.mario.score = 0
         /\ world'.score = 0
         /\ world'.camera_x = 0
         /\ ~world'.game_over
         /\ ~world'.level_complete
         /\ Len(world'.static_sprites) = 8
         /\ Len(world'.dynamic_sprites) = 5
         /\ \A s \in Elements(world'.static_sprites) \cup Elements(world'.dynamic_sprites) :
               s.active]_vars

\* A world just reset after two ticks with the pad held to the right.
C28_Witness ==
    /\ hist.ticks = 0
    /\ hist.calls = 0
    /\ hist.pad_changes = 0
    /\ controller.prev_button_states = Pressed({"right"})
    /\ world = GameWorld_init
    /\ world.mario.x = 3

\* C29: frames_sent, bytes_sent and transmission_errors change only in steps
\* of a transmission worker thread.
C29_CountersWorkerOnly ==
    [][(\/ tx'.frames_sent # tx.frames_sent
        \/ tx'.bytes_sent # tx.bytes_sent
        \/ tx'.transmission_errors # tx.transmission_errors)
         => workers' # workers]_vars

\* C30: respawn(x, y) on a Mario with a life left makes him small with the
\* standard height, at rest at (x, y), not invincible and with timer 0; on a
\* Mario with no life left it changes nothing.
C30_Respawn ==
    [][\A p \in RespawnPoints :
          hist'.calls = hist.calls + 1
          /\ world' = [world EXCEPT !.mario = Mario_respawn(world.mario, p[1], p[2])]
          => IF world.mario.lives > 0
             THEN /\ world'.mario.state = "small"
                  /\ world'.mario.height = MARIO_HEIGHT
                  /\ world'.mario.vx = 0
                  /\ world'.mario.vy = 0
                  /\ ~world'.mario.invincible
                  /\ world'.mario.invincible_timer = 0
                  /\ world'.mario.x = p[1]
                  /\ world'.mario.y = p[2]
                  /\ world'.mario.lives = world.mario.lives
             ELSE world' = world]_vars

\* Mario after get_fire_power, a hit that left him big and invincible, and a
\* respawn: small, at rest where respawn put him, the invincibility gone.
C30_Witness ==
    /\ hist.calls = 3
    /\ hist.ticks = 0
    /\ hist.ignored = 0
    /\ <<world.mario.x, world.mario.y>> \in RespawnPoints
    /\ world.mario.state = "small"
    /\ world.mario.height = MARIO_HEIGHT
    /\ world.mario.color = "MARIO_HAT"
    /\ world.mario.lives = MARIO_LIVES
    /\ ~world.mario.invincible
    /\ world.mario.invincible_timer = 0

-----------------------------------------------------------------------------
(* The worker threads of one transmitter *)

\* C31: at most one transmission worker of the transmitter is running at any
\* time (started and not yet returned from _transmission_worker).
C31_OneWorker ==
    Cardinality({ w \in Workers : workers[w].pc \notin {"unstarted", "done"} }) <= 1

-----------------------------------------------------------------------------
(* Who writes the world *)

\* C32: the world is changed by steps of the game-loop thread only; no step of
\* the main (console) thread changes it.
C32_WorldGameThreadOnly == [][world' # world => main' = main]_vars

-----------------------------------------------------------------------------
(* After disconnect() *)

\* C33: once disconnect() has returned, no worker completes the write of a
\* packet to the device and the mock records no packet.
C33_NoWriteAfterDisconnect ==
    [][hooks.on_disconnected > 0
          => /\ sink'.wire = sink.wire
             /\ tx'.mock_frames = tx.mock_frames]_vars

-----------------------------------------------------------------------------
(* The end of the game *)

\* C34: the game is over only when the player has no lives left.
C34_GameOverOnlyWithoutLives == world.game_over => world.mario.lives = 0

-----------------------------------------------------------------------------
(* Standing on a platform *)

\* Mario as _handle_mario_static_collision leaves him on a platform: his feet
\* on the platform's top, no vertical speed, the grounded flag set.
OnPlatform(w) ==
    \E i \in 1..Len(w.static_sprites) :
       LET p == w.static_sprites[i]
       IN /\ p.kind = "Platform"
          /\ w.mario.y = p.y - w.mario.height
          /\ w.mario.x < p.x + p.width
          /\ w.mario.x + w.mario.width > p.x
          /\ w.mario.vy = 0
          /\ w.mario.on_ground

\* C35: a tick without input leaves a Mario who has landed on a platform
\* grounded there: on_ground true, vy 0, y unchanged.
C35_StaysOnPlatform ==
    [][/\ hist'.ticks = hist.ticks + 1
       /\ OnPlatform(world)
       /\ controller'.button_states = Released
       => /\ world'.mario.on_ground
          /\ world'.mario.vy = 0
          /\ world'.mario.y = world.mario.y]_vars

-----------------------------------------------------------------------------
(* Mario.update alone: Mario in the air or on the ground, at any height *)

\* The vertical speeds Mario can have, a tenth of a pixel per tick apart: from
\* a jump's -JUMP_POWER up to the terminal velocity.
UpdateVelocities == { v \in (-JUMP_POWER)..TERMINAL_VELOCITY : v % 100 = 0 }

\* A small Mario put somewhere in the matrix by respawn and moving at some
\* vertical speed, the world around him as GameWorld() builds it.
UpdateInit ==
    /\ \E x \in {0, MATRIX_WIDTH - MARIO_WIDTH},
          y \in 0..(MATRIX_HEIGHT - MARIO_HEIGHT),
          vy \in UpdateVelocities :
          world = [GameWorld_init EXCEPT
                      !.mario = [Mario_respawn(GameWorld_init.mario, x, y)
                                    EXCEPT !.vy = vy]]
    /\ controller = Controller_init(FALSE)
    /\ app = App_init
    /\ tx = Transmitter_init(TRUE)
    /\ frame_queue = << >>
    /\ workers = Workers_init
    /\ sink = Sink_init
    /\ hooks = Hooks_init
    /\ main = Main_init(1)
    /\ hist = Hist_init("quiet")
    /\ codec = Codec_init
    /\ renderer = NoRenderer

\* mario.update(dt)
CallUpdate ==
    /\ hist.ticks < MaxTicks
    /\ world' = [world EXCEPT !.mario = Mario_update(world.mario, app.frame_time)]
    /\ hist' = [hist EXCEPT !.ticks = hist.ticks + 1]
    /\ UNCHANGED <<controller, app, txvars, codec, renderer>>

UpdateNext == CallUpdate

UpdateSpec == UpdateInit /\ [][UpdateNext]_vars

\* C36: after Mario.update Mario lies within the matrix and his bottom edge is
\* at or above the ground line MATRIX_HEIGHT - GROUND_HEIGHT.
C36_EndsAboveGround ==
    hist.ticks > 0 =>
       /\ world.mario.x >= 0
       /\ world.mario.x + world.mario.width <= MATRIX_WIDTH
       /\ world.mario.y >= 0
       /\ world.mario.y + world.mario.height <= MATRIX_HEIGHT - GROUND_HEIGHT

-----------------------------------------------------------------------------
(* The first version of the game: src/config.py, src/game_objects.py,      *)
(* src/level.py, src/main.py.  Positions and speeds are in tenths of a     *)
(* pixel (GRAVITY = 0.2 is 2, an enemy's 0.5 a tick is 5); the floats of   *)
(* the program can differ from these by their rounding and by nothing else.*)

\* src/config.py, lengths in pixels
Config_MARIO_SIZE == 2
Config_GROUND_HEIGHT == 4
Config_MAP_WIDTH == 200

\* src/config.py and the literals of game_objects.py and level.py, in tenths
Config_MARIO_SPEED == 10
Config_JUMP_STRENGTH == 30
Config_GRAVITY == 2
LEVEL_ENEMY_SPEED == 5
LEVEL_INVINCIBLE_TICKS == 60
LEVEL_ANIMATION_PERIOD == 10
LEVEL_COIN_VALUE == 100
LEVEL_STOMP_POINTS == 200

\* n pixels in tenths
Px(n) == n * 10

\* GameObject.__init__ for the objects that have no fields of their own
GameObject_init(x0, y0) == [x |-> Px(x0), y |-> Px(y0), width |-> Px(1), height |-> Px(1)]

\* GameObject.check_collision
GameObject_check_collision(a, b) ==
    /\ a.x < b.x + b.width
    /\ a.x + a.width > b.x
    /\ a.y < b.y + b.height
    /\ a.y + a.height > b.y

\* Level._create_default_level: solid_objects, which nothing changes later.
\* The ground cells column by column, then the bricks of the two platforms and
\* of the block.
Level_solid_objects ==
    LET top == MATRIX_HEIGHT - Config_GROUND_HEIGHT
    IN [ i \in 1..(Config_MAP_WIDTH * Config_GROUND_HEIGHT) |->
           GameObject_init((i - 1) \div Config_GROUND_HEIGHT,
                           top + ((i - 1) % Config_GROUND_HEIGHT)) ]
       \o [ i \in 1..5 |-> GameObject_init(9 + i, top - 5) ]
       \o [ i \in 1..5 |-> GameObject_init(19 + i, top - 8) ]
       \o [ i \in 1..10 |-> GameObject_init(30 + ((i - 1) \div 2), top - 6 - ((i - 1) % 2)) ]

\* Mario._check_level_collision: the indices of the solid objects Mario overlaps
\* (the first of them is the one returned; none: None).
check_level_collision(m) ==
    { i \in 1..Len(Level_solid_objects) :
         GameObject_check_collision(m, Level_solid_objects[i]) }

First(hits) == Level_solid_objects[CHOOSE i \in hits : \A j \in hits : i <= j]

\* game_objects.py Mario.__init__
GameObjects_Mario_init(x0, y0) ==
    [x |-> Px(x0), y |-> Px(y0), width |-> Px(Config_MARIO_SIZE),
     height |-> Px(Config_MARIO_SIZE), active |-> TRUE,
     vx |-> 0, vy |-> 0, on_ground |-> FALSE, lives |-> 3, score |-> 0,
     invincible |-> FALSE, invincible_timer |-> 0,
     facing_right |-> TRUE, animation_frame |-> 0, animation_timer |-> 0]

\* Mario._handle_input
GameObjects_handle_input(m, input_state) ==
    LET m1 == IF input_state.left
              THEN [m EXCEPT !.vx = -Config_MARIO_SPEED, !.facing_right = FALSE]
              ELSE IF input_state.right
              THEN [m EXCEPT !.vx = Config_MARIO_SPEED, !.facing_right = TRUE]
              ELSE [m EXCEPT !.vx = 0]
    IN IF input_state.jump /\ m1.on_ground
       THEN [m1 EXCEPT !.vy = -Config_JUMP_STRENGTH, !.on_ground = FALSE]
       ELSE m1

\* Mario._update_position
GameObjects_update_position(m, new_x, new_y) ==
    LET mx == [m EXCEPT !.x = new_x]
        m1 == IF check_level_collision(mx) # {}
              THEN [mx EXCEPT !.x = new_x - m.vx, !.vx = 0]
              ELSE mx
        my == [m1 EXCEPT !.y = new_y]
        hits == check_level_collision(my)
    IN IF hits # {}
       THEN IF m1.vy > 0
            THEN [my EXCEPT !.y = First(hits).y - m.height, !.vy = 0, !.on_ground = TRUE]
            ELSE [my EXCEPT !.y = First(hits).y + First(hits).height, !.vy = 0]
       ELSE [my EXCEPT !.on_ground = FALSE]

\* game_objects.py Mario.die
GameObjects_Mario_die(m) ==
    IF m.lives - 1 <= 0
    THEN [m EXCEPT !.lives = m.lives - 1, !.active = FALSE]
    ELSE [m EXCEPT !.lives = m.lives - 1,
                   !.x = Px(2),
                   !.y = Px(MATRIX_HEIGHT - Config_GROUND_HEIGHT) - m.height,
                   !.vx = 0, !.vy = 0,
                   !.invincible = TRUE, !.invincible_timer = LEVEL_INVINCIBLE_TICKS]

\* game_objects.py Mario.take_damage
GameObjects_Mario_take_damage(m) == IF ~m.invincible THEN GameObjects_Mario_die(m) ELSE m

\* Mario._check_boundaries
GameObjects_check_boundaries(m) ==
    LET m1 == IF m.x < 0 THEN [m EXCEPT !.x = 0, !.vx = 0] ELSE m
        m2 == IF m1.x > Px(Config_MAP_WIDTH) - m1.width
              THEN [m1 EXCEPT !.x = Px(Config_MAP_WIDTH) - m1.width, !.vx = 0]
              ELSE m1
    IN IF m2.y > Px(MATRIX_HEIGHT) THEN GameObjects_Mario_die(m2) ELSE m2

\* game_objects.py Mario.update
GameObjects_Mario_update(m, input_state) ==
    IF ~m.active THEN m
    ELSE LET m1 == GameObjects_handle_input(m, input_state)
             m2 == IF ~m1.on_ground THEN [m1 EXCEPT !.vy = m1.vy + Config_GRAVITY] ELSE m1
             m3 == GameObjects_update_position(m2, m2.x + m2.vx, m2.y + m2.vy)
             m4 == IF m3.invincible
                   THEN [m3 EXCEPT !.invincible_timer = m3.invincible_timer - 1,
                                   !.invincible = ~(m3.invincible_timer - 1 <= 0)]
                   ELSE m3
             a == m4.animation_timer + 1
             m5 == [m4 EXCEPT !.animation_frame = IF a >= LEVEL_ANIMATION_PERIOD
                                                  THEN (m4.animation_frame + 1) % 2
                                                  ELSE m4.animation_frame,
                              !.animation_timer = IF a >= LEVEL_ANIMATION_PERIOD THEN 0 ELSE a]
         IN GameObjects_check_boundaries(m5)

\* game_objects.py Enemy.__init__
GameObjects_Enemy_init(x0, y0) ==
    [x |-> Px(x0), y |-> Px(y0), width |-> Px(1), height |-> Px(1), active |-> TRUE,
     vx |-> -LEVEL_ENEMY_SPEED, vy |-> 0, direction |-> -1]

\* game_objects.py Enemy.update
GameObjects_Enemy_update(e) ==
    IF ~e.active THEN e
    ELSE LET new_x == e.x + e.vx
             floor_y == Px(MATRIX_HEIGHT - Config_GROUND_HEIGHT) - e.height
             e1 == IF new_x <= 0 \/ new_x >= Px(Config_MAP_WIDTH) - e.width
                   THEN [e EXCEPT !.direction = -e.direction, !.vx = -e.vx]
                   ELSE [e EXCEPT !.x = new_x]
         IN IF e1.y < floor_y
            THEN [e1 EXCEPT !.vy = e1.vy + (Config_GRAVITY \div 2),
                            !.y = e1.y + e1.vy + (Config_GRAVITY \div 2)]
            ELSE [e1 EXCEPT !.y = floor_y, !.vy = 0]

\* game_objects.py Coin.__init__
GameObjects_Coin_init(x0, y0) ==
    [x |-> Px(x0), y |-> Px(y0), width |-> Px(1), height |-> Px(1), active |-> TRUE,
     collected |-> FALSE, value |-> LEVEL_COIN_VALUE]

\* Level.__init__ with _create_default_level
Level_init ==
    LET top == MATRIX_HEIGHT - Config_GROUND_HEIGHT
    IN [mario |-> GameObjects_Mario_init(2, top - Config_MARIO_SIZE),
        enemies |-> << GameObjects_Enemy_init(25, top - 1),
                       GameObjects_Enemy_init(40, top - 1),
                       GameObjects_Enemy_init(60, top - 1) >>,
        coins |-> << GameObjects_Coin_init(12, top - 7),
                     GameObjects_Coin_init(22, top - 10),
                     GameObjects_Coin_init(32, top - 8),
                     GameObjects_Coin_init(45, top - 3) >>,
        camera_x |-> 0]

\* The loop over enemies[:] in Level.update, from enemy i on.
RECURSIVE Level_enemies(_, _)
Level_enemies(l, i) ==
    IF i > Len(l.enemies) THEN l
    ELSE LET enemy == GameObjects_Enemy_update(l.enemies[i])
             m == l.mario
         IN Level_enemies(
                IF GameObject_check_collision(m, enemy) /\ enemy.active
                THEN IF m.vy > 0 /\ m.y < enemy.y
                     THEN [l EXCEPT !.enemies[i] = [enemy EXCEPT !.active = FALSE],
                                    !.mario.vy = -(Config_JUMP_STRENGTH \div 2),
                                    !.mario.score = m.score + LEVEL_STOMP_POINTS]
                     ELSE [l EXCEPT !.enemies[i] = enemy,
                                    !.mario = GameObjects_Mario_take_damage(m)]
                ELSE [l EXCEPT !.enemies[i] = enemy],
                i + 1)

\* The loop over coins[:] in Level.update, from coin i on, with Coin.collect.
RECURSIVE Level_coins(_, _)
Level_coins(l, i) ==
    IF i > Len(l.coins) THEN l
    ELSE LET coin == l.coins[i]
         IN Level_coins(
                IF coin.active /\ GameObject_check_collision(l.mario, coin)
                THEN [l EXCEPT !.coins[i] = IF ~coin.collected
                                            THEN [coin EXCEPT !.collected = TRUE,
                                                              !.active = FALSE]
                                            ELSE coin,
                               !.mario.score = IF ~coin.collected
                                               THEN l.mario.score + coin.value
                                               ELSE l.mario.score]
                ELSE l,
                i + 1)

\* Level._update_camera; camera_x is in thousandths of a pixel, and the
\* smoothing step of a tenth of the distance is rounded toward zero.
Level_update_camera(l) ==
    LET wanted == l.mario.x - Px(MATRIX_WIDTH \div 3)
        target == IF wanted < 0 THEN 0
                  ELSE IF wanted > Px(Config_MAP_WIDTH - MATRIX_WIDTH)
                  THEN Px(Config_MAP_WIDTH - MATRIX_WIDTH)
                  ELSE wanted
        gap == target * 100 - l.camera_x
    IN [l EXCEPT !.camera_x = l.camera_x + (IF gap >= 0 THEN gap \div 10 ELSE -((-gap) \div 10))]

\* Level.update
Level_update(l, input_state) ==
    Level_update_camera(Level_coins(Level_enemies(
        [l EXCEPT !.mario = GameObjects_Mario_update(l.mario, input_state)], 1), 1))

\* Calls of update_game in one run, and how many of the first of them find a
\* button held.
MaxLevelUpdates == 840
MaxInputTicks == 1

\* controller_handler.py get_input_state, the keys Mario reads
InputStates == [left : BOOLEAN, right : BOOLEAN, jump : BOOLEAN]

NoInput == [left |-> FALSE, right |-> FALSE, jump |-> FALSE]

\* GameEngine.__init__: a new Level, the game neither over nor paused.
EngineInit ==
    /\ world = [level |-> Level_init, game_over |-> FALSE, paused |-> FALSE]
    /\ controller = Controller_init(FALSE)
    /\ app = App_init
    /\ tx = Transmitter_init(TRUE)
    /\ frame_queue = << >>
    /\ workers = Workers_init
    /\ sink = Sink_init
    /\ hooks = Hooks_init
    /\ main = Main_init(1)
    /\ hist = Hist_init("quiet")
    /\ codec = Codec_init
    /\ renderer = NoRenderer

\* GameEngine.update_game, which run() calls on every frame while not paused,
\* whether or not the game is over.
update_game ==
    /\ hist.ticks < MaxLevelUpdates
    /\ \E input_state \in (IF hist.ticks < MaxInputTicks THEN InputStates ELSE {NoInput}) :
          LET l == Level_update(world.level, input_state)
          IN world' = [world EXCEPT !.level = l,
                                    !.game_over = IF ~l.mario.active THEN TRUE ELSE @]
    /\ hist' = [hist EXCEPT !.ticks = hist.ticks + 1]
    /\ UNCHANGED <<controller, app, txvars, codec, renderer>>

EngineNext == update_game

EngineSpec == EngineInit /\ [][EngineNext]_vars

\* C37: in the first version of the game lives is never negative, and once
\* Mario is inactive an update changes neither lives nor score.
C37_LivesTerminal ==
    [][/\ world'.level.mario.lives >= 0
       /\ ~world.level.mario.active
             => /\ world'.level.mario.lives = world.level.mario.lives
                /\ world'.level.mario.score = world.level.mario.score]_vars

-----------------------------------------------------------------------------
(* The framed packet of the first version's transmitter *)

-----------------------------------------------------------------------------
(* The clock of the game loop across a pause *)

\* C39: the dt that World.update is given covers one frame interval at most,
\* also on the first iteration after a pause: paused time is not simulated.
C39_PausedTimeNotSimulated ==
    [][/\ hist'.frames = hist.frames + 1
       /\ app.pc = "top"
       /\ ~world.game_over
       /\ ~world.level_complete
       => app.elapsed <= app.frame_time]_vars

-----------------------------------------------------------------------------
(* Frames on their way: _render on the game-loop thread, the worker behind it *)

\* Calls of _render in one run.
MaxFrameRenders == 3

\* The application's world and renderer, no pad attached, the transmitter
\* connected to a device and its worker started.
FrameInit ==
    /\ world = GameWorld_init
    /\ controller = Controller_init(FALSE)
    /\ app = App_init
    /\ tx = SerialTransmitter_connect(Transmitter_init(FALSE), "ok", "worker1")
    /\ frame_queue = << >>
    /\ workers = [Workers_init EXCEPT !["worker1"].pc = "check"]
    /\ sink = Sink_init
    /\ hooks = connect_hooks(Transmitter_init(FALSE), Hooks_init, "ok")
    /\ main = Main_init(1)
    /\ hist = Hist_init("quiet")
    /\ codec = Codec_init
    /\ renderer = Renderer_init

\* The renderer's buffer as the list of rows, each a list of pixels, that
\* matrix_to_serial_data walks: row y of the list is frame_buffer[y - 1].
buffer_rows(r, buffer) ==
    [y \in 1..r.height |-> [x \in 1..r.width |-> buffer[y - 1][x - 1]]]

\* MatrixMarioApp._render: render_frame, then send_frame of the buffer it
\* returned.
RenderFrame ==
    /\ hist.renders < MaxFrameRenders
    /\ LET out == render_frame(renderer, world)
           n == hist.sends + 1
           call == tx.connected
       IN /\ renderer' = [renderer EXCEPT !.frame_buffer = out.frame_buffer]
          /\ world' = out.world
          /\ frame_queue' = IF call
                            THEN SerialTransmitter_send_frame(
                                     tx, frame_queue,
                                     send_frame_packet(n, buffer_rows(renderer, out.frame_buffer)))
                            ELSE frame_queue
          /\ hist' = IF ~call THEN [hist EXCEPT !.renders = @ + 1]
                     ELSE IF send_frame_returns(tx, frame_queue)
                     THEN [hist EXCEPT !.renders = @ + 1, !.sends = n,
                                       !.accepted = Append(@, n)]
                     ELSE [hist EXCEPT !.renders = @ + 1, !.sends = n,
                                       !.dropped = @ + 1]
    /\ UNCHANGED <<controller, app, tx, workers, sink, hooks, main, codec>>

FrameNext ==
    \/ WorldTick
    \/ RenderFrame
    \/ \E w \in Workers : WorkerCheck(w)
    \/ \E w \in Workers : WorkerGet(w)
    \/ \E w \in Workers : WorkerWritten(w)

FrameSpec == FrameInit /\ [][FrameNext]_vars

\* The bytes a queued object stands for when it is read: its own, or those of
\* the renderer's buffer if it is that buffer.
PacketBytes(pkt, r) ==
    IF pkt.alias THEN matrix_to_serial_data(buffer_rows(r, r.frame_buffer))
    ELSE pkt.data

\* The packets that are queued or in a worker's hand, by their id.
InFlight(q, ws) ==
    { q[i] : i \in 1..Len(q) } \cup { ws[w].frame_data : w \in { v \in Workers : ws[v].pc = "write" } }

\* C40: a packet that send_frame has accepted holds the bytes of the buffer as
\* it was when it was queued; while it is queued or being written by the
\* worker no later render changes its bytes.
C40_PacketIsSnapshot ==
    [][\A after \in InFlight(frame_queue', workers') :
          IF \E before \in InFlight(frame_queue, workers) : before.id = after.id
          THEN \A before \in InFlight(frame_queue, workers) :
                  before.id = after.id
                     => PacketBytes(after, renderer') = PacketBytes(before, renderer)
          ELSE PacketBytes(after, renderer')
                  = matrix_to_serial_data(buffer_rows(renderer', renderer'.frame_buffer))]_vars

\* C40, its case: one frame is in the worker's write and two more are queued,
\* and the buffer, rendered again since, no longer holds what the older two
\* were made of.
C40_Witness ==
    /\ workers["worker1"].pc = "write"
    /\ Len(frame_queue) = 2
    /\ frame_queue[1].data # frame_queue[2].data
    /\ frame_queue[1].data
          # matrix_to_serial_data(buffer_rows(renderer, renderer.frame_buffer))
    /\ workers["worker1"].frame_data.data
          # matrix_to_serial_data(buffer_rows(renderer, renderer.frame_buffer))

====
